---------------------------- MODULE Spec2Model ----------------------------
(***************************************************************************)
(* A model of ropr's gadget discovery pipeline: the image loader and the   *)
(* two image patchers (binary.rs), the tail/head rules (rules.rs) and the  *)
(* scan / dedup / filter / render pipeline of main (bin/ropr.rs).          *)
(*                                                                         *)
(* The file image is a sequence of bytes `bytes`; byte offset k of the     *)
(* file is bytes[k+1].  The object-file headers are not part of that       *)
(* sequence: what the object parser reads from them is carried in the      *)
(* record `image` (kind, section headers, program headers, symbols).       *)
(* usize / u64 arithmetic is carried out modulo 2^UsizeBits.               *)
(***************************************************************************)
EXTENDS Integers, Sequences, FiniteSets, TLC

(* ------------------------------ bounds -------------------------------- *)
\* width of the machine word (usize, u64) of the model
UsizeBits == 16
\* longest .text content enumerated by the pipeline specifications
MaxLen == 3
\* largest --max-instr enumerated
MaxInstrOpt == 3
\* capacity of the output BufWriter, in lines
BufCap == 1
\* most entries of a .return_sites / .retpoline_sites section enumerated
MaxSites == 2

(* ------------------------- program constants -------------------------- *)
\* RETPOLINE_THUNK_SIZE
ThunkSize == 32
\* bytes handed to the decoder at a retpoline site
DecodeWindow == 15
\* length of the return-site patch c3 cc cc cc cc
RetPatchLen == 5
\* size of one entry of .return_sites / .retpoline_sites
EntrySize == 4
\* longest x86 instruction, the scanner's look-back unit
MaxInstrBytes == 15

Usize == 2 ^ UsizeBits

None == "None"

\* Option<u64>: None is the empty sequence, Some(v) the sequence of v
NoAddr == <<>>

Some(v) == <<v>>

(* ------------------------ sequences and bytes ------------------------- *)
Range(s) == {s[i] : i \in 1..Len(s)}

SeqsUpTo(S, n) == UNION {[1..k -> S] : k \in 0..n}

SeqsFromTo(S, lo, hi) == UNION {[1..k -> S] : k \in lo..hi}

\* the half-open slice [from, to) of 0-based offsets
Slice(s, from, to) == [k \in 1..(to - from) |-> s[from + k]]

RECURSIVE Flatten(_)
Flatten(ss) == IF ss = <<>> THEN <<>> ELSE Head(ss) \o Flatten(Tail(ss))

\* i32::from_ne_bytes on a little-endian host: the signed value of 4 bytes
I32FromBytes(c) ==
    c[1] + 256 * c[2] + 65536 * c[3]
      + 16777216 * (IF c[4] >= 128 THEN c[4] - 256 ELSE c[4])

\* the 4 little-endian bytes of a signed 32-bit value (small magnitudes)
I32ToBytes(v) ==
    LET u == IF v >= 0 THEN v ELSE v + 16777216
    IN  << u % 256, (u \div 256) % 256, (u \div 65536) % 256,
           IF v >= 0 THEN 0 ELSE 255 >>

\* `x as usize` of a signed value
AsUsize(v) == v % Usize


(* --------------------------- the decoder ------------------------------ *)
Bits32 == "Bits32"
Bits64 == "Bits64"

Reg64 == << "RAX", "RCX", "RDX", "RBX", "RSP", "RBP", "RSI", "RDI",
            "R8", "R9", "R10", "R11", "R12", "R13", "R14", "R15" >>

Reg32 == << "EAX", "ECX", "EDX", "EBX", "ESP", "EBP", "ESI", "EDI" >>

\* An Instruction as the rules and the formatter read it.  An operand the
\* instruction does not have reads as kind Register, register None (the
\* decoder's defaults).
Instr(code, mnemonic, len, flow, k0, r0, k1, r1, base, target, imm) ==
    [code |-> code, mnemonic |-> mnemonic, len |-> len, flow_control |-> flow,
     op0_kind |-> k0, op0_register |-> r0, op1_kind |-> k1,
     op1_register |-> r1, memory_base |-> base,
     near_branch_target |-> target, imm |-> imm, prefixes |-> {}]

InvalidInstr ==
    Instr("INVALID", "INVALID", 1, "Exception", "Register", None,
          "Register", None, None, 0, 0)

\* an encoding outside the modelled subset of x86: no input of the
\* specifications below decodes to it
UnmodelledInstr ==
    Instr("Unmodelled", "Unmodelled", 1, "Exception", "Register", None,
          "Register", None, None, 0, 0)

\* ModR/M fields
ModOf(m) == m \div 64
RegOf(m) == (m \div 8) % 8
RmOf(m) == m % 8

\* FF /2 and FF /4 with a register operand; rex is 8 after a REX.B prefix
DecodeFF(b, off, bits, rex, plen) ==
    IF Len(b) - off < 2 THEN InvalidInstr
    ELSE LET m == b[off + 2]
             r == IF bits = Bits64 THEN Reg64[RmOf(m) + rex + 1]
                  ELSE Reg32[RmOf(m) + 1]
         IN  IF ModOf(m) = 3 /\ RegOf(m) = 2
               THEN Instr(IF bits = Bits64 THEN "Call_rm64" ELSE "Call_rm32",
                          "Call", plen + 2, "IndirectCall", "Register", r,
                          "Register", None, None, 0, 0)
             ELSE IF ModOf(m) = 3 /\ RegOf(m) = 4
               THEN Instr(IF bits = Bits64 THEN "Jmp_rm64" ELSE "Jmp_rm32",
                          "Jmp", plen + 2, "IndirectBranch", "Register", r,
                          "Register", None, None, 0, 0)
             ELSE UnmodelledInstr

\* E8 / E9 rel32: the target is the address after the instruction plus the
\* sign-extended displacement
DecodeRel32(b, off, bits, ip, plen) ==
    IF Len(b) - off < 5 THEN InvalidInstr
    ELSE LET rel == I32FromBytes(Slice(b, off + 1, off + 5))
             tgt == (ip + plen + 5 + rel) % Usize
             call == b[off + 1] = 232
         IN  Instr(IF call THEN (IF bits = Bits64 THEN "Call_rel32_64"
                                                  ELSE "Call_rel32_32")
                   ELSE (IF bits = Bits64 THEN "Jmp_rel32_64"
                                          ELSE "Jmp_rel32_32"),
                   IF call THEN "Call" ELSE "Jmp", plen + 5,
                   IF call THEN "Call" ELSE "UnconditionalBranch",
                   IF bits = Bits64 THEN "NearBranch64" ELSE "NearBranch32",
                   None, "Register", None, None, tgt, 0)

\* one opcode without prefix bytes; rex is 8 after a REX.B prefix
DecodeOpcode(b, off, bits, ip, rex, plen) ==
    LET op == b[off + 1]
    IN  CASE op = 195 ->
               Instr(IF bits = Bits64 THEN "Retnq" ELSE "Retnd", "Ret",
                     plen + 1, "Return", "Register", None, "Register", None,
                     None, 0, 0)
          [] op = 144 /\ rex = 0 ->
               Instr("Nopd", "Nop", plen + 1, "Next", "Register", None,
                     "Register", None, None, 0, 0)
          [] op = 204 ->
               Instr("Int3", "Int3", plen + 1, "Interrupt", "Register", None,
                     "Register", None, None, 0, 0)
          [] op \in 88..95 ->
               Instr(IF bits = Bits64 THEN "Pop_r64" ELSE "Pop_r32", "Pop",
                     plen + 1, "Next", "Register",
                     IF bits = Bits64 THEN Reg64[op - 88 + rex + 1]
                     ELSE Reg32[op - 88 + 1],
                     "Register", None, None, 0, 0)
          [] op = 176 ->
               IF Len(b) - off < 2 THEN InvalidInstr
               ELSE Instr("Mov_r8_imm8", "Mov", plen + 2, "Next", "Register",
                          IF rex = 8 THEN "R8L" ELSE "AL", "Immediate8", None,
                          None, 0, b[off + 2])
          [] op \in {232, 233} -> DecodeRel32(b, off, bits, ip, plen)
          [] op = 255 -> DecodeFF(b, off, bits, rex, plen)
          [] OTHER -> UnmodelledInstr

\* Disassembler::decode_at_offset: the instruction at byte offset off of b,
\* whose address is ip
Decode(b, off, bits, ip) ==
    IF off >= Len(b) THEN InvalidInstr
    ELSE IF b[off + 1] = 65 /\ bits = Bits64
      THEN \* REX.B prefix
           IF Len(b) - off < 2 THEN InvalidInstr
           ELSE IF b[off + 2] = 65 THEN UnmodelledInstr
           ELSE DecodeOpcode(b, off + 1, bits, ip, 8, 1)
    ELSE IF b[off + 1] = 65
      THEN Instr("Inc_r32", "Inc", 1, "Next", "Register", "ECX", "Register",
                 None, None, 0, 0)
    ELSE DecodeOpcode(b, off, bits, ip, 0, 0)

(* ----------------------- canonical text (tokens) ---------------------- *)
RegText(r) ==
    CASE r = "RAX" -> "rax" [] r = "RCX" -> "rcx" [] r = "RDX" -> "rdx"
      [] r = "RBX" -> "rbx" [] r = "RSP" -> "rsp" [] r = "RBP" -> "rbp"
      [] r = "RSI" -> "rsi" [] r = "RDI" -> "rdi" [] r = "R8" -> "r8"
      [] r = "R9" -> "r9" [] r = "R10" -> "r10" [] r = "R11" -> "r11"
      [] r = "R12" -> "r12" [] r = "R13" -> "r13" [] r = "R14" -> "r14"
      [] r = "R15" -> "r15" [] r = "EAX" -> "eax" [] r = "ECX" -> "ecx"
      [] r = "EDX" -> "edx" [] r = "EBX" -> "ebx" [] r = "ESP" -> "esp"
      [] r = "EBP" -> "ebp" [] r = "ESI" -> "esi" [] r = "EDI" -> "edi"
      [] r = "AL" -> "al" [] r = "R8L" -> "r8b" [] OTHER -> ""

MnemonicText(m) ==
    CASE m = "Ret" -> "ret" [] m = "Nop" -> "nop" [] m = "Int3" -> "int3"
      [] m = "Pop" -> "pop" [] m = "Mov" -> "mov" [] m = "Jmp" -> "jmp"
      [] m = "Call" -> "call" [] m = "Inc" -> "inc" [] OTHER -> "(bad)"

\* the number of a token without a numeric operand
NoNum == 0 - 1

\* One instruction of the canonical text: mnemonic, register operand and
\* number (an immediate or a branch target, 0 when there is none).
FormatInstr(i) ==
    << MnemonicText(i.mnemonic), RegText(i.op0_register),
       IF i.op0_kind \in {"NearBranch64", "NearBranch32"}
       THEN i.near_branch_target
       ELSE IF i.op1_kind = "Immediate8" THEN i.imm ELSE NoNum >>

\* Gadget::format_instruction: the canonical text of an instruction list
FormatGadget(instrs) == [k \in 1..Len(instrs) |-> FormatInstr(instrs[k])]

(* -------------------------- rules (rules.rs) -------------------------- *)
NearBranchKinds == {"NearBranch64", "NearBranch32", "NearBranch16"}

is_ret(instr, ret_thunk) ==
    CASE instr.mnemonic = "Ret" -> TRUE
      [] instr.mnemonic = "Jmp" ->
           IF ret_thunk = NoAddr THEN FALSE
           ELSE IF instr.op0_kind \in NearBranchKinds
                THEN instr.near_branch_target = ret_thunk[1]
                ELSE FALSE
      [] OTHER -> FALSE

is_target_thunk(instr, ret_thunk, thunks) ==
    IF instr.mnemonic = "Jmp" /\ instr.op0_kind \in NearBranchKinds
    THEN \/ ret_thunk = Some(instr.near_branch_target)
         \/ \E k \in 1..Len(thunks) :
               thunks[k][2] = Some(instr.near_branch_target)
    ELSE FALSE

is_sys(instr) ==
    instr.mnemonic \in {"Iret", "Iretd", "Iretq", "Sysret", "Sysretq",
                        "Sysexit", "Sysexitq"}

\* a JOP test that takes a memory operand whatever its base register
is_jopAnyBase(instr, noisy) ==
    IF instr.mnemonic \in {"Jmp", "Call"}
    THEN noisy \/ instr.op0_kind \in {"Register", "Memory"}
    ELSE FALSE

is_jop(instr, noisy) ==
    IF instr.mnemonic \in {"Jmp", "Call"}
    THEN IF noisy THEN TRUE
         ELSE CASE instr.op0_kind = "Register" -> TRUE
                [] instr.op0_kind = "Memory" ->
                     instr.memory_base \notin {"EIP", "RIP"}
                [] OTHER -> FALSE
    ELSE FALSE

is_invalid(instr) == instr.code = "INVALID"

is_gadget_tail(instr, rop, sys, jop, noisy, ret_thunk, thunks) ==
    IF is_invalid(instr) THEN FALSE
    ELSE IF instr.flow_control = "Next" THEN FALSE
    ELSE IF rop /\ is_target_thunk(instr, ret_thunk, thunks) THEN TRUE
    ELSE IF rop /\ is_ret(instr, ret_thunk) THEN TRUE
    ELSE IF sys /\ is_sys(instr) THEN TRUE
    ELSE IF jop /\ is_jop(instr, noisy) THEN TRUE
    ELSE FALSE

\* a head test that takes every instruction of flow control Call, the
\* plain CALL included
is_rop_gadget_headAnyCall(instr, noisy) ==
    IF is_invalid(instr) THEN FALSE
    ELSE IF ~noisy /\ instr.prefixes # {} THEN FALSE
    ELSE CASE instr.flow_control = "Next" -> TRUE
           [] instr.flow_control = "ConditionalBranch" -> noisy
           [] instr.flow_control = "Call" -> TRUE
           [] OTHER -> FALSE

is_rop_gadget_head(instr, noisy) ==
    IF is_invalid(instr) THEN FALSE
    ELSE IF ~noisy /\ instr.prefixes # {} THEN FALSE
    ELSE CASE instr.flow_control = "Next" -> TRUE
           [] instr.flow_control = "ConditionalBranch" -> noisy
           [] instr.flow_control = "Call" -> instr.mnemonic # "Call"
           [] OTHER -> FALSE

ImmediateKinds ==
    {"Immediate8", "Immediate8_2nd", "Immediate16", "Immediate32",
     "Immediate64", "Immediate8to16", "Immediate8to32", "Immediate8to64",
     "Immediate32to64"}

ArithPivotMnemonics ==
    {"Adc", "Adcx", "Add", "Sbb", "Sub", "Bndmov", "Cmova", "Cmovae",
     "Cmovb", "Cmovbe", "Cmove", "Cmovg", "Cmovge", "Cmovl", "Cmovle",
     "Cmovne", "Cmovno", "Cmovnp", "Cmovns", "Cmovo", "Cmovp", "Cmovs",
     "Cmpxchg", "Cmpxchg16b", "Cmpxchg8b", "Pop", "Popa", "Popad"}

StackRegs == {"RSP", "ESP", "SP"}

BaseRegs == {"RBP", "EBP", "BP"}

is_stack_pivot_head(instr) ==
    CASE instr.mnemonic \in ArithPivotMnemonics ->
           /\ instr.op0_register \in StackRegs
           /\ instr.op1_kind \in ImmediateKinds \cup {"Register"}
      [] instr.mnemonic \in {"Mov", "Movbe", "Movd"} ->
           /\ instr.op0_register \in StackRegs
           /\ (instr.op1_kind = "Register" \/ instr.memory_base # None)
      [] instr.mnemonic \in {"Xadd", "Xchg"} ->
           \/ instr.op0_register \in StackRegs
           \/ instr.op1_register \in StackRegs
      [] instr.mnemonic = "Leave" -> TRUE
      [] OTHER -> FALSE

is_stack_pivot_tail(instr, ret_thunk) == is_ret(instr, ret_thunk)

is_base_pivot_head(instr) ==
    CASE instr.mnemonic \in ArithPivotMnemonics ->
           /\ instr.op0_register \in BaseRegs
           /\ instr.op1_kind \in ImmediateKinds \cup {"Register"}
      [] instr.mnemonic \in {"Mov", "Movbe", "Movd"} ->
           /\ instr.op0_register \in BaseRegs
           /\ (instr.op1_kind = "Register" \/ instr.memory_base # None)
      [] instr.mnemonic \in {"Xadd", "Xchg"} ->
           \/ instr.op0_register \in BaseRegs
           \/ instr.op1_register \in BaseRegs
      [] instr.mnemonic = "Enter" -> TRUE
      [] OTHER -> FALSE


(* ------------------------ the image (binary.rs) ----------------------- *)
\* What Object::parse reads from the headers of the file:
\*   kind     "elf", "pe", "unknown" (Object::Unknown), "other" (another
\*            object type) or "err" (the parse fails)
\*   shdrs    ELF section headers  [name, sh_addr, sh_offset, sh_size]
\*   phdrs    ELF program headers  [exec, p_vaddr, p_offset, p_filesz]
\*   syms     ELF symbols          [name, st_value]
\*   pesecs   PE sections [exec, virtual_address, pointer_to_raw_data,
\*                         size_of_raw_data]
Shdr(name, addr, offset, size) ==
    [name |-> name, sh_addr |-> addr, sh_offset |-> offset, sh_size |-> size]

Phdr(exec, vaddr, offset, filesz) ==
    [exec |-> exec, p_vaddr |-> vaddr, p_offset |-> offset,
     p_filesz |-> filesz]

PeSec(exec, va, ptr, size) ==
    [exec |-> exec, virtual_address |-> va, pointer_to_raw_data |-> ptr,
     size_of_raw_data |-> size]

Sym(name, value) == [name |-> name, st_value |-> value]

Image(kind, is64, shdrs, phdrs, syms, pesecs, base) ==
    [kind |-> kind, is_64 |-> is64, shdrs |-> shdrs, phdrs |-> phdrs,
     syms |-> syms, pesecs |-> pesecs, image_base |-> base]

\* Binary::get_sym_addr on an ELF: the st_value of the first symbol of that
\* name.  On any other image the function panics (get_sym_addr_panics).
get_sym_addr(img, fnname) ==
    LET matched == SelectSeq(img.syms, LAMBDA sy : sy.name = fnname)
    IN  IF Len(matched) > 0 THEN Some(matched[1].st_value) ELSE NoAddr

get_sym_addr_panics(img) == img.kind # "elf"

\* iter().find(|header| name == n): the first header of that name, or <<>>
FindSection(img, n) ==
    LET found == SelectSeq(img.shdrs, LAMBDA h : h.name = n)
    IN  IF Len(found) > 0 THEN <<found[1]>> ELSE <<>>

Section(file_offset, section_vaddr, program_base, bitness, bs) ==
    [file_offset |-> file_offset, section_vaddr |-> section_vaddr,
     program_base |-> program_base, bitness |-> bitness, bytes |-> bs]

BitnessOf(img) == IF img.is_64 THEN Bits64 ELSE Bits32

\* &self.bytes[start..end] is in range
SliceOk(b, start, end) == start <= end /\ end <= Len(b)

ElfTextSections(img, b) ==
    LET hs == SelectSeq(img.shdrs, LAMBDA h : h.name = ".text")
    IN  [k \in 1..Len(hs) |->
           Section(hs[k].sh_offset, hs[k].sh_addr, 0, BitnessOf(img),
                   Slice(b, hs[k].sh_offset, hs[k].sh_offset + hs[k].sh_size))]

ElfTextSectionsOk(img, b) ==
    \A k \in 1..Len(img.shdrs) :
       img.shdrs[k].name = ".text" =>
          SliceOk(b, img.shdrs[k].sh_offset,
                  img.shdrs[k].sh_offset + img.shdrs[k].sh_size)

ElfExecSegments(img, b) ==
    LET hs == SelectSeq(img.phdrs, LAMBDA h : h.exec)
    IN  [k \in 1..Len(hs) |->
           Section(hs[k].p_offset, hs[k].p_vaddr, 0, BitnessOf(img),
                   Slice(b, hs[k].p_offset, hs[k].p_offset + hs[k].p_filesz))]

ElfExecSegmentsOk(img, b) ==
    \A k \in 1..Len(img.phdrs) :
       img.phdrs[k].exec =>
          SliceOk(b, img.phdrs[k].p_offset,
                  img.phdrs[k].p_offset + img.phdrs[k].p_filesz)

PeExecSections(img, b) ==
    LET hs == SelectSeq(img.pesecs, LAMBDA h : h.exec)
    IN  [k \in 1..Len(hs) |->
           Section(hs[k].pointer_to_raw_data, hs[k].virtual_address,
                   img.image_base, BitnessOf(img),
                   Slice(b, hs[k].pointer_to_raw_data,
                         hs[k].pointer_to_raw_data + hs[k].size_of_raw_data))]

PeExecSectionsOk(img, b) ==
    \A k \in 1..Len(img.pesecs) :
       img.pesecs[k].exec =>
          SliceOk(b, img.pesecs[k].pointer_to_raw_data,
                  img.pesecs[k].pointer_to_raw_data
                    + img.pesecs[k].size_of_raw_data)

RawSection(b, bitness) == << Section(0, 0, 0, bitness, b) >>

SectionsResult(err, regs) == [err |-> err, regions |-> regs]

\* Binary::sections(raw): raw is "true", "false" or "unset".  err is "ok",
\* "Err" (an error returned to main) or "panic" (a slice out of range).
sections(img, b, raw) ==
    CASE raw = "true" -> SectionsResult("ok", RawSection(b, Bits64))
      [] raw = "false" ->
           CASE img.kind = "err" -> SectionsResult("Err", <<>>)
             [] img.kind = "elf" ->
                  IF ElfExecSegmentsOk(img, b)
                  THEN SectionsResult("ok", ElfExecSegments(img, b))
                  ELSE SectionsResult("panic", <<>>)
             [] img.kind = "pe" ->
                  IF PeExecSectionsOk(img, b)
                  THEN SectionsResult("ok", PeExecSections(img, b))
                  ELSE SectionsResult("panic", <<>>)
             [] OTHER -> SectionsResult("Err", <<>>)
      [] OTHER ->
           CASE img.kind = "err" -> SectionsResult("Err", <<>>)
             [] img.kind = "elf" ->
                  IF ElfTextSectionsOk(img, b)
                  THEN SectionsResult("ok", ElfTextSections(img, b))
                  ELSE SectionsResult("panic", <<>>)
             [] img.kind = "pe" ->
                  IF PeExecSectionsOk(img, b)
                  THEN SectionsResult("ok", PeExecSections(img, b))
                  ELSE SectionsResult("panic", <<>>)
             [] OTHER -> SectionsResult("ok", RawSection(b, Bits32))

(* ----------------------- the patchers (binary.rs) --------------------- *)
\* b with the bytes of seq w written at 0-based offset at
WriteAt(b, at, w) ==
    [k \in 1..Len(b) |->
       IF k - 1 >= at /\ k - 1 < at + Len(w) THEN w[k - at] ELSE b[k]]

SitesResult(panic, s) == [panic |-> panic, sites |-> s]

\* The entries of a helper section resolved to addresses:
\*   i32::from_ne_bytes(chunk) as i64 as usize + (sh_addr + idx * 4)
\* A slice out of the file, a last chunk shorter than 4 bytes and, with
\* overflow checks (a debug build), a sum past the machine word all panic.
ResolveSites(b, h, checks) ==
    LET start == h.sh_offset
        n == (h.sh_size + EntrySize - 1) \div EntrySize
        raw(i) == AsUsize(I32FromBytes(Slice(b, start + EntrySize * i,
                                             start + EntrySize * i + EntrySize)))
                    + (h.sh_addr + i * EntrySize)
    IN  IF ~SliceOk(b, start, start + h.sh_size) THEN SitesResult(TRUE, <<>>)
        ELSE IF h.sh_size % EntrySize # 0 THEN SitesResult(TRUE, <<>>)
        ELSE IF checks /\ \E i \in 0..(n - 1) : raw(i) >= Usize
          THEN SitesResult(TRUE, <<>>)
        ELSE SitesResult(FALSE, [k \in 1..n |-> raw(k - 1) % Usize])

StepResult(panic, b) == [panic |-> panic, bytes |-> b]

RetPatch == << 195, 204, 204, 204, 204 >>

\* a skip test that also skips the site at the very end of .text
SiteSkippedAtEnd(text_offset, text) == text_offset >= text.sh_size

\* ret_text_offset > header.sh_size: the site is skipped
SiteSkipped(text_offset, text) == text_offset > text.sh_size

\* the body of apply_returnsites' for_each for one resolved address
ReturnsiteBody(b, text, ret_vaddr, checks) ==
    LET ret_text_offset == (ret_vaddr - text.sh_addr) % Usize
        patch_addr == text.sh_offset + ret_text_offset
    IN  IF checks /\ ret_vaddr < text.sh_addr THEN StepResult(TRUE, b)
        ELSE IF SiteSkipped(ret_text_offset, text) THEN StepResult(FALSE, b)
        ELSE IF ~SliceOk(b, patch_addr, patch_addr + RetPatchLen)
          THEN StepResult(TRUE, b)
        ELSE StepResult(FALSE, WriteAt(b, patch_addr, RetPatch))

\* the register index of a retpoline site: (target - thunk_array_addr) / 32
ThunkReg(target, thunk_array_addr) ==
    ((target - thunk_array_addr) % Usize) \div ThunkSize

\* the base ModR/M byte by instruction code; 0 stands for the panic
BaseModrm(code) ==
    CASE code = "Call_rel32_64" -> 16
      [] code = "Jmp_rel32_64" -> 32
      [] OTHER -> 0

\* a rewrite that forgets the REX.B prefix of r8..r15
RetpolineRewriteNoRex(b, patch_addr, len, reg0, base_modrm, checks) ==
    LET sum == (base_modrm + 192) + (reg0 % 8)
        fill == [k \in 1..(len - 2) |-> 144]
    IN  StepResult(FALSE, WriteAt(WriteAt(b, patch_addr, <<255, sum>>),
                                  patch_addr + 2, fill))

\* the replacement of a site once the decoded instruction passed the checks:
\* [0x41] 0xff modrm 0x90...
RetpolineRewrite(b, patch_addr, len, reg0, base_modrm, checks) ==
    LET rex == reg0 >= 8
        reg == IF rex THEN reg0 - 8 ELSE reg0
        b1 == IF rex THEN WriteAt(b, patch_addr, <<65>>) ELSE b
        idx == IF rex THEN 1 ELSE 0
        sum == (base_modrm + 192) + (reg % 256)
        b2 == WriteAt(b1, patch_addr + idx, <<255, sum % 256>>)
        fill == [k \in 1..(len - (idx + 2)) |-> 144]
    IN  IF checks /\ sum > 255 THEN StepResult(TRUE, b1)
        ELSE StepResult(FALSE, WriteAt(b2, patch_addr + idx + 2, fill))

\* the body of patch_retpolines' for_each for one resolved address
RetpolineBody(b, text, retp_vaddr, thunk_array_addr, checks) ==
    LET retp_text_offset == (retp_vaddr - text.sh_addr) % Usize
        patch_addr == text.sh_offset + retp_text_offset
        instr == Decode(Slice(b, patch_addr, patch_addr + DecodeWindow), 0,
                        Bits64, retp_vaddr)
        target == instr.near_branch_target
        reg == ThunkReg(target, thunk_array_addr)
    IN  IF checks /\ retp_vaddr < text.sh_addr THEN StepResult(TRUE, b)
        ELSE IF SiteSkipped(retp_text_offset, text) THEN StepResult(FALSE, b)
        ELSE IF ~SliceOk(b, patch_addr, patch_addr + DecodeWindow)
          THEN StepResult(TRUE, b)
        ELSE IF checks /\ target < thunk_array_addr THEN StepResult(TRUE, b)
        ELSE IF reg = 4 THEN StepResult(TRUE, b)
        ELSE IF BaseModrm(instr.code) = 0 THEN StepResult(TRUE, b)
        ELSE RetpolineRewrite(b, patch_addr, instr.len, reg,
                              BaseModrm(instr.code), checks)


(* ------------------- the scanner (spec section 4.F) ------------------- *)
RegionBase(region) == (region.program_base + region.section_vaddr) % Usize

DecodeIn(region, off) ==
    Decode(region.bytes, off, region.bitness, (RegionBase(region) + off) % Usize)

\* Disassembly::is_tail_at
is_tail_at(region, off, rop, sys, jop, noisy, rt, th) ==
    is_gadget_tail(DecodeIn(region, off), rop, sys, jop, noisy, rt, th)

HeadsResult(ok, instrs) == [ok |-> ok, instrs |-> instrs]

\* The linear decode from pos that must land exactly on the tail at t with
\* at most budget head-qualified instructions.
RECURSIVE HeadsFrom(_, _, _, _, _)
HeadsFrom(region, pos, t, budget, noisy) ==
    IF pos = t THEN HeadsResult(TRUE, <<>>)
    ELSE IF pos > t \/ budget = 0 THEN HeadsResult(FALSE, <<>>)
    ELSE LET i == DecodeIn(region, pos)
         IN  IF ~is_rop_gadget_head(i, noisy) THEN HeadsResult(FALSE, <<>>)
             ELSE LET r == HeadsFrom(region, pos + i.len, t, budget - 1, noisy)
                  IN  IF r.ok THEN HeadsResult(TRUE, <<i>> \o r.instrs)
                      ELSE r

\* A Gadget: its instructions and, for --nouniq, an identity of its own
Gadget(instrs, address, uniq) ==
    [instructions |-> instrs, unique_id |-> IF uniq THEN 0 ELSE address]

Pair(g, address) == [gadget |-> g, address |-> address]

\* the first start offset of the look-back window of the tail at t
WindowStart(t, max_instr) ==
    IF t > MaxInstrBytes * max_instr THEN t - MaxInstrBytes * max_instr ELSE 0

\* Disassembly::gadgets_from_tail: the tail alone, then every start offset
\* of the window whose linear decode lands on the tail
gadgets_from_tail(region, t, max_instr, noisy, uniq) ==
    LET tl == DecodeIn(region, t)
        addr(s) == (RegionBase(region) + s) % Usize
        from(s) == HeadsFrom(region, s, t, max_instr - 1, noisy)
        starts == SelectSeq([k \in 1..(t - WindowStart(t, max_instr)) |->
                                WindowStart(t, max_instr) + k - 1],
                            LAMBDA s : from(s).ok)
    IN  << Pair(Gadget(<<tl>>, addr(t), uniq), addr(t)) >>
          \o [k \in 1..Len(starts) |->
                Pair(Gadget(from(starts[k]).instrs \o <<tl>>, addr(starts[k]),
                            uniq),
                     addr(starts[k]))]

\* Gadget equality and hash: by canonical text (and by identity for --nouniq)
GadgetKey(g) == << FormatGadget(g.instructions), g.unique_id >>

\* Gadget::is_stack_pivot / is_base_pivot
GadgetIsStackPivot(g, rt) ==
    /\ is_stack_pivot_head(g.instructions[1])
    /\ is_stack_pivot_tail(g.instructions[Len(g.instructions)], rt)

GadgetIsBasePivot(g) == is_base_pivot_head(g.instructions[1])

(* --------------------- main (bin/ropr.rs): helpers -------------------- *)
\* --range values: parses is FALSE for a value without '-' or with a side
\* that is not hexadecimal; those are dropped by the filter_map
ParseRanges(range) ==
    LET ok == SelectSeq(range, LAMBDA r : r.parses)
    IN  [k \in 1..Len(ok) |-> << ok[k].from, ok[k].to >>]

InRanges(rs, address) ==
    IF rs = <<>> THEN TRUE
    ELSE \E k \in 1..Len(rs) : rs[k][1] <= address /\ address <= rs[k][2]

\* A regex of the model is a literal word: it matches a text with a token
\* whose mnemonic or register is that word.
RegexIsMatch(re, text) ==
    \E k \in 1..Len(text) : text[k][1] = re.pat \/ text[k][2] = re.pat

\* format!("__x86_indirect_thunk_{r}") over the 16 registers
ThunkNames ==
    << "__x86_indirect_thunk_rax", "__x86_indirect_thunk_rcx",
       "__x86_indirect_thunk_rdx", "__x86_indirect_thunk_rbx",
       "__x86_indirect_thunk_rsp", "__x86_indirect_thunk_rbp",
       "__x86_indirect_thunk_rsi", "__x86_indirect_thunk_rdi",
       "__x86_indirect_thunk_r8", "__x86_indirect_thunk_r9",
       "__x86_indirect_thunk_r10", "__x86_indirect_thunk_r11",
       "__x86_indirect_thunk_r12", "__x86_indirect_thunk_r13",
       "__x86_indirect_thunk_r14", "__x86_indirect_thunk_r15" >>

\* the (name, address) table of the indirect thunks
ThunkTable(img) ==
    [k \in 1..Len(ThunkNames) |->
       << ThunkNames[k], get_sym_addr(img, ThunkNames[k]) >>]

\* ranges.is_empty() || ranges.iter().any(from <= address <= to)
RangeFilter(rs, pairs) == SelectSeq(pairs, LAMBDA p : InRanges(rs, p.address))

\* FxHashMap::insert: the first key of a text stays, the value is replaced
MapInsert(m, p) ==
    LET k == GadgetKey(p.gadget)
    IN  IF k \in DOMAIN m THEN [m EXCEPT ![k].address = p.address]
        ELSE [x \in DOMAIN m \cup {k} |-> IF x = k THEN p ELSE m[x]]

\* collect::<FxHashMap<_, _>>(): the pairs inserted in the order produced
RECURSIVE MapExtend(_, _)
MapExtend(m, pairs) ==
    IF pairs = <<>> THEN m
    ELSE MapExtend(MapInsert(m, Head(pairs)), Tail(pairs))

EmptyMap == [x \in {} |-> 0]

\* the four filters of main after the map
PassesRegex(o, g) ==
    /\ \A k \in 1..Len(o.regex) :
          RegexIsMatch(o.regex[k], FormatGadget(g.instructions))
    /\ ~\E k \in 1..Len(o.not_regex) :
          RegexIsMatch(o.not_regex[k], FormatGadget(g.instructions))

\* the filters without the --trim-nops one
PassesFiltersNoTrim(o, rt, g) ==
    /\ PassesRegex(o, g)
    /\ (~o.stack_pivot \/ GadgetIsStackPivot(g, rt))
    /\ (~o.base_pivot \/ GadgetIsBasePivot(g))

PassesFilters(o, rt, g) ==
    /\ PassesRegex(o, g)
    /\ (~o.stack_pivot \/ GadgetIsStackPivot(g, rt))
    /\ (~o.base_pivot \/ GadgetIsBasePivot(g))
    /\ (~o.trim_nops \/ g.instructions[1].mnemonic # "Nop")

\* sort_unstable_by address of a set of pairs: every order of the pairs
\* that ascends by address (pairs of equal address come in any order)
RECURSIVE SortedByAddress(_)
SortedByAddress(S) ==
    IF S = {} THEN {<<>>}
    ELSE LET lo == CHOOSE a \in {p.address : p \in S} :
                      \A p \in S : a <= p.address
         IN  UNION {{<<p>> \o rest : rest \in SortedByAddress(S \ {p})} :
                    p \in {q \in S : q.address = lo}}

(* ------------------ write_gadgets (bin/ropr.rs) ----------------------- *)
\* Thunk symbolization: a token whose number is the address of a thunk
\* gets the name of the thunk appended.
SymbolOf(num, rt, th) ==
    IF num = NoNum THEN ""
    ELSE IF rt = Some(num) THEN "__x86_return_thunk"
    ELSE LET hit == SelectSeq(th, LAMBDA e : e[2] = Some(num))
         IN  IF Len(hit) > 0 THEN hit[1][1] ELSE ""

Formatted(g, rt, th) ==
    LET text == FormatGadget(g.instructions)
    IN  [k \in 1..Len(text) |->
           << text[k][1], text[k][2], text[k][3], SymbolOf(text[k][3], rt, th) >>]

Line(address, text) == [address |-> address, text |-> text]

\* String::cmp on rendered texts, for the tokens of the model: tokens in
\* order, each by mnemonic, then register, then number
MnemonicOrder == << "(bad)", "call", "inc", "int3", "jmp", "mov", "nop",
                    "pop", "ret" >>

RegisterOrder == << "", "al", "eax", "ebp", "ebx", "ecx", "edi", "edx",
                    "esi", "esp", "r10", "r11", "r12", "r13", "r14", "r15",
                    "r8", "r8b", "r9", "rax", "rbp", "rbx", "rcx", "rdi",
                    "rdx", "rsi", "rsp" >>

RankIn(order, x) == CHOOSE k \in 1..Len(order) : order[k] = x

TokenCmp(a, b) ==
    LET ka == << RankIn(MnemonicOrder, a[1]), RankIn(RegisterOrder, a[2]), a[3] >>
        kb == << RankIn(MnemonicOrder, b[1]), RankIn(RegisterOrder, b[2]), b[3] >>
    IN  IF ka[1] # kb[1] THEN ka[1] - kb[1]
        ELSE IF ka[2] # kb[2] THEN ka[2] - kb[2]
        ELSE ka[3] - kb[3]

RECURSIVE TextCmp(_, _)
TextCmp(a, b) ==
    IF a = <<>> /\ b = <<>> THEN 0
    ELSE IF a = <<>> THEN 0 - 1
    ELSE IF b = <<>> THEN 1
    ELSE IF TokenCmp(Head(a), Head(b)) # 0 THEN TokenCmp(Head(a), Head(b))
    ELSE TextCmp(Tail(a), Tail(b))

\* sort_by text, a stable sort: insertion after the last line not greater
RECURSIVE InsertByText(_, _)
InsertByText(sorted, l) ==
    IF sorted = <<>> THEN <<l>>
    ELSE IF TextCmp(sorted[Len(sorted)].text, l.text) <= 0
         THEN Append(sorted, l)
         ELSE Append(InsertByText(SubSeq(sorted, 1, Len(sorted) - 1), l),
                     sorted[Len(sorted)])

RECURSIVE SortByText(_)
SortByText(ls) ==
    IF ls = <<>> THEN <<>>
    ELSE InsertByText(SortByText(SubSeq(ls, 1, Len(ls) - 1)), ls[Len(ls)])

\* the lines in the order main hands them over, whatever --sort is
RenderOrderAsGiven(gs, rt, th, sort) ==
    [k \in 1..Len(gs) |-> Line(gs[k].address, Formatted(gs[k].gadget, rt, th))]

\* the lines write_gadgets writes, in the order it writes them
RenderOrder(gs, rt, th, sort) ==
    LET ls == [k \in 1..Len(gs) |->
                 Line(gs[k].address, Formatted(gs[k].gadget, rt, th))]
    IN  IF sort THEN SortByText(ls) ELSE ls


(* --------------------------- the state -------------------------------- *)
VARIABLES
    image,          \* what the object parser reads from the file's headers
    bytes,          \* Binary.bytes, the file image
    build,          \* "debug" (overflow checks) or "release" (wrapping)
    opts,           \* the parsed command line
    pc,             \* where main is
    exit_code,      \* the process exit code once pc = "exit"
    snapshot,       \* the image as the running patch pass found it
    sites,          \* the resolved addresses of the running patch pass
    loop_i,         \* the entry the running patch pass is at
    thunk_array,    \* the address of __x86_indirect_thunk_array
    regions,        \* the code regions sections(raw) gave
    ranges,         \* the parsed --range intervals
    ret_thunk,      \* the address of __x86_return_thunk, if any
    thunks,         \* the indirect thunk table
    scan_region,    \* the region being scanned
    scan_res,       \* offset -> pairs, for the offsets a worker finished
    scan_order,     \* the offsets in the order the workers finished them
    reordered,      \* history: a worker finished before one of a lower offset
    emitted,        \* every pair the scanner emitted so far
    gadget_to_addr, \* the dedup map
    gadgets,        \* the filtered, sorted vector handed to write_gadgets
    lines,          \* the lines write_gadgets is to write, in order
    write_i,        \* the line write_gadgets is at
    wbuf,           \* the lines held in the BufWriter
    out,            \* the lines that reached standard output
    pipe_closed,    \* the reader of standard output went away
    write_failed,   \* a write of a gadget line returned an error
    rule_instr,     \* the decoded instruction handed to the rules
    rule_res        \* what each rule returned for it, once called

inputVars == << image, build, opts >>
patchVars == << bytes, snapshot, sites, loop_i, thunk_array >>
prepVars == << regions, ranges, ret_thunk, thunks >>
scanVars == << scan_region, scan_res, scan_order, reordered, emitted,
              gadget_to_addr >>
outVars == << gadgets, lines, write_i, wbuf, out, pipe_closed, write_failed >>
ruleVars == << rule_instr, rule_res >>
vars == << inputVars, patchVars, prepVars, scanVars, outVars, ruleVars, pc,
          exit_code >>

NoExit == 0 - 1
ExitOk == 0
ExitErr == 1
ExitPanic == 101

\* the verdicts of is_gadget_tail, is_rop_gadget_head, is_stack_pivot_head
\* and is_base_pivot_head, each <<>> until the rule was called
NoVerdicts == [tail |-> <<>>, head |-> <<>>, stack |-> <<>>, base |-> <<>>]

Goto(p) == pc' = p /\ exit_code' = exit_code

Exit(c) == pc' = "exit" /\ exit_code' = c

Checks == build = "debug"

TextHeader == FindSection(image, ".text")[1]

InitWith(img, b, bld, o) ==
    /\ image = img /\ bytes = b /\ build = bld /\ opts = o
    /\ pc = "start" /\ exit_code = NoExit
    /\ snapshot = b /\ sites = <<>> /\ loop_i = 0 /\ thunk_array = 0
    /\ regions = <<>> /\ ranges = <<>> /\ ret_thunk = NoAddr /\ thunks = <<>>
    /\ scan_region = 0 /\ scan_res = EmptyMap /\ scan_order = <<>>
    /\ reordered = FALSE
    /\ emitted = <<>> /\ gadget_to_addr = EmptyMap
    /\ gadgets = <<>> /\ lines = <<>> /\ write_i = 0 /\ wbuf = <<>>
    /\ out = <<>> /\ pipe_closed = FALSE /\ write_failed = FALSE
    /\ rule_instr = InvalidInstr /\ rule_res = NoVerdicts

(* ------------------------ main: load and patch ------------------------ *)
\* main up to the patch passes; --magic prints the symbol offsets and ends
Start ==
    /\ pc = "start"
    /\ IF opts.magic
       THEN IF get_sym_addr_panics(image) THEN Exit(ExitPanic) ELSE Exit(ExitOk)
       ELSE Goto("apply_returnsites")
    /\ UNCHANGED << inputVars, patchVars, prepVars, scanVars, outVars >>
    /\ UNCHANGED ruleVars

\* Binary::apply_returnsites up to its for_each
ApplyReturnsites ==
    /\ pc = "apply_returnsites"
    /\ LET rs == FindSection(image, ".return_sites")
           res == ResolveSites(bytes, rs[1], Checks)
       IN  IF ~opts.patch_rets THEN
               Goto("patch_retpolines") /\ UNCHANGED << sites, loop_i >>
           ELSE IF image.kind = "err" THEN
               Exit(ExitErr) /\ UNCHANGED << sites, loop_i >>
           ELSE IF image.kind # "elf" \/ rs = <<>> THEN
               Goto("patch_retpolines") /\ UNCHANGED << sites, loop_i >>
           ELSE IF res.panic THEN
               Exit(ExitPanic) /\ UNCHANGED << sites, loop_i >>
           ELSE IF FindSection(image, ".text") = <<>> \/ res.sites = <<>> THEN
               Goto("patch_retpolines") /\ UNCHANGED << sites, loop_i >>
           ELSE Goto("ret_loop") /\ sites' = res.sites /\ loop_i' = 1
    /\ snapshot' = bytes
    /\ UNCHANGED << inputVars, bytes, thunk_array, prepVars, scanVars, outVars >>
    /\ UNCHANGED ruleVars

\* one turn of apply_returnsites' for_each
ReturnsiteEntry ==
    /\ pc = "ret_loop"
    /\ LET r == ReturnsiteBody(bytes, TextHeader, sites[loop_i], Checks)
       IN  /\ bytes' = r.bytes
           /\ IF r.panic THEN Exit(ExitPanic) /\ UNCHANGED loop_i
              ELSE IF loop_i = Len(sites)
                THEN Goto("patch_retpolines") /\ UNCHANGED loop_i
              ELSE Goto("ret_loop") /\ loop_i' = loop_i + 1
    /\ UNCHANGED << inputVars, snapshot, sites, thunk_array, prepVars,
                    scanVars, outVars >>
    /\ UNCHANGED ruleVars

\* main's lookup of the thunk array and Binary::patch_retpolines up to its
\* for_each
PatchRetpolines ==
    /\ pc = "patch_retpolines"
    /\ LET addr == get_sym_addr(image, "__x86_indirect_thunk_array")
           rs == FindSection(image, ".retpoline_sites")
           res == ResolveSites(bytes, rs[1], Checks)
       IN  IF ~opts.patch_retpolines THEN
               Goto("sections") /\ UNCHANGED << sites, loop_i, thunk_array >>
           ELSE IF get_sym_addr_panics(image) THEN
               Exit(ExitPanic) /\ UNCHANGED << sites, loop_i, thunk_array >>
           ELSE IF addr = NoAddr \/ rs = <<>> THEN
               Goto("sections") /\ UNCHANGED << sites, loop_i, thunk_array >>
           ELSE IF res.panic THEN
               Exit(ExitPanic) /\ UNCHANGED << sites, loop_i, thunk_array >>
           ELSE IF FindSection(image, ".text") = <<>> \/ res.sites = <<>> THEN
               Goto("sections") /\ UNCHANGED << sites, loop_i, thunk_array >>
           ELSE /\ Goto("retp_loop")
                /\ sites' = res.sites /\ loop_i' = 1 /\ thunk_array' = addr[1]
    /\ snapshot' = bytes
    /\ UNCHANGED << inputVars, bytes, prepVars, scanVars, outVars >>
    /\ UNCHANGED ruleVars

\* one turn of patch_retpolines' for_each
RetpolineEntry ==
    /\ pc = "retp_loop"
    /\ LET r == RetpolineBody(bytes, TextHeader, sites[loop_i], thunk_array,
                              Checks)
       IN  /\ bytes' = r.bytes
           /\ IF r.panic THEN Exit(ExitPanic) /\ UNCHANGED loop_i
              ELSE IF loop_i = Len(sites)
                THEN Goto("sections") /\ UNCHANGED loop_i
              ELSE Goto("retp_loop") /\ loop_i' = loop_i + 1
    /\ UNCHANGED << inputVars, snapshot, sites, thunk_array, prepVars,
                    scanVars, outVars >>
    /\ UNCHANGED ruleVars

\* main from sections(raw) to the thunk table
Prepare ==
    /\ pc = "sections"
    /\ LET sec == sections(image, bytes, opts.raw)
           bad == \/ sec.err # "ok"
                  \/ opts.max_instr = 0
                  \/ \E k \in 1..Len(opts.regex) : ~opts.regex[k].valid
                  \/ \E k \in 1..Len(opts.not_regex) : ~opts.not_regex[k].valid
                  \/ get_sym_addr_panics(image)
       IN  IF bad
           THEN /\ IF sec.err = "Err" THEN Exit(ExitErr)
                   ELSE IF sec.err = "panic" \/ opts.max_instr = 0
                     THEN Exit(ExitPanic)
                   ELSE IF \/ \E k \in 1..Len(opts.regex) : ~opts.regex[k].valid
                           \/ \E k \in 1..Len(opts.not_regex) :
                                 ~opts.not_regex[k].valid
                     THEN Exit(ExitErr)
                   ELSE Exit(ExitPanic)
                /\ UNCHANGED << prepVars, scan_region >>
           ELSE /\ regions' = sec.regions
                /\ ranges' = ParseRanges(opts.range)
                /\ thunks' = ThunkTable(image)
                /\ ret_thunk' = get_sym_addr(image, "__x86_return_thunk")
                /\ scan_region' = 1
                /\ IF sec.regions = <<>> THEN Goto("filter") ELSE Goto("scan")
    /\ UNCHANGED << inputVars, patchVars, scan_res, scan_order, reordered,
                    emitted,
                    gadget_to_addr, outVars >>
    /\ UNCHANGED ruleVars


(* ----------------------------- main: scan ----------------------------- *)
\* (0..dis.bytes().len()): the offsets of a region handed to the workers
ScanOffsets(region) == 0..(Len(region.bytes) - 1)

\* a scan that keeps one gadget per tail (map in place of flat_map_iter)
ScanAtFirstOnly(region, o, opt, rt, th) ==
    IF is_tail_at(region, o, opt.rop, opt.sys, opt.jop, opt.noisy, rt, th)
    THEN SubSeq(gadgets_from_tail(region, o, opt.max_instr, opt.noisy,
                                  opt.uniq), 1, 1)
    ELSE <<>>

\* the filter and flat_map_iter of one offset
ScanAt(region, o, opt, rt, th) ==
    IF is_tail_at(region, o, opt.rop, opt.sys, opt.jop, opt.noisy, rt, th)
    THEN gadgets_from_tail(region, o, opt.max_instr, opt.noisy, opt.uniq)
    ELSE <<>>

\* a collect that lays the results out in the order the workers finished
CollectOrderAsFinished(finished, n) == finished

\* The order in which collect::<Vec<_>>() of the parallel iterator lays out
\* the workers' results: by offset, whatever the order they finished in.
CollectOrder(finished, n) == [k \in 1..n |-> k - 1]

\* a worker takes an offset of the region and finishes it
ScanOffset ==
    /\ pc = "scan"
    /\ \E o \in ScanOffsets(regions[scan_region]) \ DOMAIN scan_res :
          /\ scan_res' = [x \in DOMAIN scan_res \cup {o} |->
                            IF x = o
                            THEN ScanAt(regions[scan_region], o, opts,
                                        ret_thunk, thunks)
                            ELSE scan_res[x]]
          /\ scan_order' = Append(scan_order, o)
          /\ reordered' = (reordered \/ \E x \in DOMAIN scan_res : x > o)
    /\ UNCHANGED << inputVars, patchVars, prepVars, scan_region, emitted,
                    gadget_to_addr, outVars, pc, exit_code >>
    /\ UNCHANGED ruleVars

\* the region's vector is collected, range-filtered and put into the map
Collect ==
    /\ pc = "scan"
    /\ DOMAIN scan_res = ScanOffsets(regions[scan_region])
    /\ LET n == Len(regions[scan_region].bytes)
           order == CollectOrder(scan_order, n)
           vec == Flatten([k \in 1..n |-> scan_res[order[k]]])
       IN  /\ emitted' = emitted \o vec
           /\ gadget_to_addr' =
                 MapExtend(gadget_to_addr, RangeFilter(ranges, vec))
    /\ scan_res' = EmptyMap
    /\ scan_order' = <<>>
    /\ UNCHANGED reordered
    /\ IF scan_region = Len(regions)
       THEN Goto("filter") /\ UNCHANGED scan_region
       ELSE Goto("scan") /\ scan_region' = scan_region + 1
    /\ UNCHANGED << inputVars, patchVars, prepVars, outVars >>
    /\ UNCHANGED ruleVars

(* ------------------- main: filter, sort and render -------------------- *)
\* the filters after the map and sort_unstable_by address
Filter ==
    /\ pc = "filter"
    /\ \E gs \in SortedByAddress(
                   {gadget_to_addr[k] : k \in
                      {x \in DOMAIN gadget_to_addr :
                         PassesFilters(opts, ret_thunk,
                                       gadget_to_addr[x].gadget)}}) :
          /\ gadgets' = gs
          /\ lines' = RenderOrder(gs, ret_thunk, thunks, opts.sort)
          /\ IF gs = <<>> THEN Goto("flush") ELSE Goto("write")
    /\ write_i' = 1
    /\ UNCHANGED << inputVars, patchVars, prepVars, scanVars, wbuf, out,
                    pipe_closed, write_failed >>
    /\ UNCHANGED ruleVars

\* writeln! of one line into the BufWriter: a full buffer is flushed to
\* the pipe first, and a closed pipe makes that write fail
WriteLine ==
    /\ pc = "write"
    /\ IF Len(wbuf) >= BufCap /\ pipe_closed
       THEN /\ write_failed' = TRUE
            /\ Goto("flush")
            /\ UNCHANGED << wbuf, out, write_i >>
       ELSE /\ IF Len(wbuf) >= BufCap
               THEN out' = out \o wbuf /\ wbuf' = << lines[write_i] >>
               ELSE wbuf' = Append(wbuf, lines[write_i]) /\ UNCHANGED out
            /\ write_i' = write_i + 1
            /\ IF write_i = Len(lines) THEN Goto("flush") ELSE Goto("write")
            /\ UNCHANGED write_failed
    /\ UNCHANGED << inputVars, patchVars, prepVars, scanVars, gadgets, lines,
                    pipe_closed >>
    /\ UNCHANGED ruleVars

\* the reader of standard output closes the pipe
ClosePipe ==
    /\ pc \in {"write", "flush"}
    /\ ~pipe_closed
    /\ pipe_closed' = TRUE
    /\ UNCHANGED << inputVars, patchVars, prepVars, scanVars, gadgets, lines,
                    write_i, wbuf, out, write_failed, pc, exit_code >>
    /\ UNCHANGED ruleVars

\* stdout.into_inner()?.flush()? and the end of main
Flush ==
    /\ pc = "flush"
    /\ IF wbuf # <<>> /\ pipe_closed
       THEN Exit(ExitErr) /\ UNCHANGED << wbuf, out >>
       ELSE Exit(ExitOk) /\ out' = out \o wbuf /\ wbuf' = <<>>
    /\ UNCHANGED << inputVars, patchVars, prepVars, scanVars, gadgets, lines,
                    write_i, pipe_closed, write_failed >>
    /\ UNCHANGED ruleVars

Next ==
    \/ Start
    \/ ApplyReturnsites
    \/ ReturnsiteEntry
    \/ PatchRetpolines
    \/ RetpolineEntry
    \/ Prepare
    \/ ScanOffset
    \/ Collect
    \/ Filter
    \/ WriteLine
    \/ ClosePipe
    \/ Flush

(* ------------------------------ inputs -------------------------------- *)
\* --regex / -N values of the model
Regex(valid, pat) == [valid |-> valid, pat |-> pat]

\* --range values of the model
RangeOpt(parses, from, to) == [parses |-> parses, from |-> from, to |-> to]

\* the command line defaults (with --max-instr as given)
DefaultOpts(max_instr) ==
    [noisy |-> FALSE, rop |-> TRUE, sys |-> TRUE, jop |-> TRUE,
     stack_pivot |-> FALSE, base_pivot |-> FALSE, trim_nops |-> TRUE,
     patch_rets |-> TRUE, patch_retpolines |-> TRUE, max_instr |-> max_instr,
     regex |-> <<>>, not_regex |-> <<>>, raw |-> "unset", range |-> <<>>,
     uniq |-> TRUE, sort |-> FALSE, magic |-> FALSE]

\* ret, nop, pop rax, mov al imm8, int3
CodeBytes == {195, 144, 88, 176, 204}

\* an ELF whose .text (and executable segment) is the whole of the bytes
ElfPlain(n) ==
    Image("elf", TRUE, << Shdr(".text", 16, 0, n) >>,
          << Phdr(TRUE, 16, 0, n) >>, <<>>, <<>>, 0)

\* an ELF with two .text sections (and executable segments): the first
\* byte, and the rest at another address
ElfTwo(n) ==
    Image("elf", TRUE,
          << Shdr(".text", 16, 0, 1), Shdr(".text", 48, 1, n - 1) >>,
          << Phdr(TRUE, 16, 0, 1), Phdr(TRUE, 48, 1, n - 1) >>,
          <<>>, <<>>, 0)

\* an ELF whose two .text sections are mapped at the same address
ElfOverlap(n) ==
    Image("elf", TRUE,
          << Shdr(".text", 16, 0, 1), Shdr(".text", 16, 1, n - 1) >>,
          << Phdr(TRUE, 16, 0, 1), Phdr(TRUE, 16, 1, n - 1) >>,
          <<>>, <<>>, 0)

\* a 32-bit ELF
Elf32(n) ==
    Image("elf", FALSE, << Shdr(".text", 16, 0, n) >>,
          << Phdr(TRUE, 16, 0, n) >>, <<>>, <<>>, 0)

\* a PE with one executable section over the bytes
PePlain(n) ==
    Image("pe", TRUE, <<>>, <<>>, <<>>, << PeSec(TRUE, 16, 0, n) >>, 1024)

\* a file no parser recognises, an object of another type, a file the
\* parser fails on
NonObject(kind) == Image(kind, FALSE, <<>>, <<>>, <<>>, <<>>, 0)

\* A kernel-like ELF.  .text (address 256, 5 bytes) holds a jump to the
\* rbx thunk, thunk array + 96; .retpoline_sites (file offset 16) names
\* that jump, .return_sites (file offset 20) names an address past .text.
KernelImage ==
    Image("elf", TRUE,
          << Shdr(".text", 256, 0, 5), Shdr(".retpoline_sites", 128, 16, 4),
             Shdr(".return_sites", 132, 20, 4) >>,
          << Phdr(TRUE, 256, 0, 5) >>,
          << Sym("__x86_indirect_thunk_array", 1024),
             Sym("__x86_indirect_thunk_rbx", 1120),
             Sym("__x86_return_thunk", 2048) >>,
          <<>>, 0)

KernelBytes ==
    << 233 >> \o I32ToBytes(1120 - (256 + 5))
       \o [k \in 1..11 |-> 204]
       \o I32ToBytes(256 - 128) \o I32ToBytes(356 - 132)

InitKernel ==
    \E p \in BOOLEAN :
       InitWith(KernelImage, KernelBytes, "release",
                [DefaultOpts(2) EXCEPT !.patch_retpolines = p])

\* the scan, dedup and render inputs: every .text content over CodeBytes
InitScan ==
    \E b \in SeqsFromTo(CodeBytes, 1, MaxLen) :
    \E u \in BOOLEAN, so \in BOOLEAN, m \in 1..MaxInstrOpt :
    \E img \in {ElfPlain(Len(b))}
                 \cup (IF Len(b) >= 2
                       THEN {ElfTwo(Len(b)), ElfOverlap(Len(b))} ELSE {}) :
       InitWith(img, b, "release",
                [DefaultOpts(m) EXCEPT !.uniq = u, !.sort = so])

Spec == (InitScan \/ InitKernel) /\ [][Next]_vars

\* the loader inputs: every kind of file, --raw, the patch options, --magic
InitLoad ==
    \E b \in SeqsFromTo({88, 195}, 1, 2) :
    \E img \in {ElfPlain(Len(b)), Elf32(Len(b)), PePlain(Len(b)),
                NonObject("unknown"), NonObject("other"), NonObject("err")} :
    \E raw \in {"true", "false", "unset"} :
    \E pr \in BOOLEAN, pp \in BOOLEAN, mg \in BOOLEAN, m \in 0..1 :
       InitWith(img, b, "release",
                [DefaultOpts(m) EXCEPT !.raw = raw, !.patch_rets = pr,
                                       !.patch_retpolines = pp, !.magic = mg])

SpecLoad == (InitLoad \/ InitKernel) /\ [][Next]_vars

\* ret, nop, pop rsp, pop rbp
FilterBytes == {195, 144, 92, 93}

\* the --range values tried: none, two intervals of which one is empty,
\* a value that does not parse next to one that does, and one alone
RangeChoices ==
    { <<>>,
      << RangeOpt(TRUE, 18, 16), RangeOpt(TRUE, 16, 17) >>,
      << RangeOpt(FALSE, 0, 0), RangeOpt(TRUE, 17, 17) >>,
      << RangeOpt(FALSE, 0, 0) >> }

\* the pivot filters tried: none, --stack-pivot, --base-pivot
PivotChoices == { <<FALSE, FALSE>>, <<TRUE, FALSE>>, <<FALSE, TRUE>> }

\* the filter inputs: --range, -R, -N, the pivot filters and --trim-nops
InitFilter ==
    \E b \in SeqsFromTo(FilterBytes, 2, MaxLen) :
    \E rg \in RangeChoices :
    \E re \in {<<>>, << Regex(TRUE, "pop") >>} :
    \E nre \in {<<>>, << Regex(TRUE, "rsp") >>} :
    \E pv \in PivotChoices, tn \in BOOLEAN, u \in BOOLEAN :
       InitWith(ElfPlain(Len(b)), b, "release",
                [DefaultOpts(MaxInstrOpt) EXCEPT
                    !.range = rg, !.regex = re, !.not_regex = nre,
                    !.stack_pivot = pv[1], !.base_pivot = pv[2], !.trim_nops = tn,
                    !.uniq = u])

SpecFilter == (InitFilter \/ InitKernel) /\ [][Next]_vars

\* A kernel-like ELF for the patch passes.  The file is .text (12 bytes at
\* address 256), then nr entries of .return_sites (address ra), then np
\* entries of .retpoline_sites (address pa); a section without entries is
\* absent.
PatchImage(nr, np, ra, pa) ==
    Image("elf", TRUE,
          << Shdr(".text", 256, 0, 12) >>
            \o (IF nr > 0
                THEN << Shdr(".return_sites", ra, 12, EntrySize * nr) >>
                ELSE <<>>)
            \o (IF np > 0
                THEN << Shdr(".retpoline_sites", pa, 12 + EntrySize * nr,
                             EntrySize * np) >>
                ELSE <<>>),
          << Phdr(TRUE, 256, 0, 12) >>,
          << Sym("__x86_indirect_thunk_array", 1024),
             Sym("__x86_indirect_thunk_rbx", 1120),
             Sym("__x86_return_thunk", 2048) >>,
          <<>>, 0)

\* .text of PatchImage: at offset 0 a site of opcode op (call E8, jmp E9, or
\* ret C3), with a 0x41 prefix if pre, whose branch target is t1; at offset
\* 6 a jmp to the r9 thunk; int3 in between
PatchText(op, pre, t1) ==
    LET len1 == IF pre THEN 6 ELSE 5
        site1 == (IF pre THEN <<65>> ELSE <<>>)
                   \o (IF op = 195 THEN << 195, 204, 204, 204, 204 >>
                       ELSE <<op>> \o I32ToBytes(t1 - (256 + len1)))
        site2 == <<233>> \o I32ToBytes((1024 + 9 * ThunkSize) - (256 + 6 + 5))
    IN  site1 \o (IF pre THEN <<>> ELSE <<204>>) \o site2 \o <<204>>

\* the entries of a helper section at address addr that name the offsets
\* offs of .text
SiteEntries(addr, offs) ==
    Flatten([k \in 1..Len(offs) |->
               I32ToBytes((256 + offs[k]) - (addr + EntrySize * (k - 1)))])

\* the targets tried at the first site: thunks 0, 3 (also 7 bytes into it),
\* 4, 8, 15, the address after the array and the one before it
SiteTargets ==
    { 1024, 1024 + 3 * ThunkSize, 1024 + 3 * ThunkSize + 7,
      1024 + 4 * ThunkSize, 1024 + 8 * ThunkSize, 1024 + 15 * ThunkSize,
      1024 + 16 * ThunkSize, 1024 - ThunkSize }

\* the first sites tried: a jmp to each target, calls, prefixed ones, a ret
SiteChoices ==
    { <<233, FALSE, t>> : t \in SiteTargets }
      \cup { <<232, FALSE, 1024 + 3 * ThunkSize>>,
             <<232, TRUE, 1024 + 8 * ThunkSize>>,
             <<233, TRUE, 1024 + 3 * ThunkSize>>,
             <<195, FALSE, 0>> }

\* the patch inputs: up to MaxSites entries per helper section, naming
\* offsets of .text before, in, across the end of, at the end of and after
\* it; the helper
\* sections lie below .text (entries positive) or above it (negative)
InitPatch ==
    \E site \in SiteChoices :
    \E ro \in SeqsFromTo({0 - 1, 0, 10, 12, 13}, 0, MaxSites) :
    \E po \in SeqsFromTo({0, 6, 13}, 0, MaxSites) :
    \E bld \in {"debug", "release"}, low \in BOOLEAN :
       LET ra == IF low THEN 128 ELSE 512
           pa == IF low THEN 192 ELSE 768
       IN  InitWith(PatchImage(Len(ro), Len(po), ra, pa),
                    PatchText(site[1], site[2], site[3])
                      \o SiteEntries(ra, ro) \o SiteEntries(pa, po),
                    bld, DefaultOpts(1))

\* main up to the end of the patch passes
NextPatch ==
    \/ Start
    \/ ApplyReturnsites
    \/ ReturnsiteEntry
    \/ PatchRetpolines
    \/ RetpolineEntry

SpecPatch == InitPatch /\ [][NextPatch]_vars

(* ------------------- the rules on decoded instructions ---------------- *)
\* the general registers tried: the stack pointer, the base pointer and the
\* accumulator, in their three widths
GpRegs == StackRegs \cup BaseRegs \cup {"RAX", "EAX", "AX"}

WidthOf(r) ==
    IF r \in {"RSP", "RBP", "RAX"} THEN 64
    ELSE IF r \in {"ESP", "EBP", "EAX"} THEN 32 ELSE 16

\* the immediate kinds of an operation of that width
ImmKindsOf(w) ==
    IF w = 64 THEN {"Immediate8to64", "Immediate32to64"}
    ELSE IF w = 32 THEN {"Immediate8to32", "Immediate32"}
    ELSE {"Immediate8to16", "Immediate16"}

\* the base registers of the memory operands tried: none (a displacement or
\* an index alone), a general register, the instruction pointer
MemBases == {None, "RAX", "RSP", "RIP", "EIP"}

\* the operands of an instruction without operands
NoOperands == <<"Register", None, "Register", None, None>>

\* The operands of an instruction form, as << op0_kind, op0_register,
\* op1_kind, op1_register, memory_base >>; an operand the form does not have
\* reads as kind Register, register None.
Operands(form) ==
    CASE form = "r_r" ->
           {<<"Register", rr[1], "Register", rr[2], None>> :
               rr \in {x \in GpRegs \X GpRegs : WidthOf(x[1]) = WidthOf(x[2])}}
      [] form = "r_imm" ->
           UNION {{<<"Register", a, k, None, None>> : k \in ImmKindsOf(WidthOf(a))} :
                    a \in GpRegs}
      [] form = "r_m" ->
           {<<"Register", a, "Memory", None, m>> : a \in GpRegs, m \in MemBases}
      [] form = "m_r" ->
           {<<"Memory", None, "Register", a, m>> : a \in GpRegs, m \in MemBases}
      [] form = "m_imm" ->
           {<<"Memory", None, k, None, m>> : k \in ImmKindsOf(32), m \in MemBases}
      [] form = "r" ->
           {<<"Register", a, "Register", None, None>> : a \in GpRegs}
      [] form = "m" ->
           {<<"Memory", None, "Register", None, m>> : m \in MemBases}
      [] form = "bnd" ->
           {<<"Register", "BND0", "Register", "BND1", None>>}
             \cup {<<"Register", "BND0", "Memory", None, m>> : m \in MemBases}
             \cup {<<"Memory", None, "Register", "BND0", m>> : m \in MemBases}
      [] form = "xmm" ->
           {<<"Register", a, "Register", "XMM0", None>> : a \in {"ESP", "EBP", "EAX"}}
             \cup {<<"Register", "XMM0", "Register", a, None>> :
                     a \in {"ESP", "EBP", "EAX"}}
             \cup {<<"Register", "XMM0", "Memory", None, m>> : m \in MemBases}
             \cup {<<"Memory", None, "Register", "XMM0", m>> : m \in MemBases}
      [] form = "imm_imm" ->
           {<<"Immediate16", None, "Immediate8_2nd", None, None>>}
      [] OTHER -> {NoOperands}

\* the forms in which the decoder produces a mnemonic
FormsOf(mnemonic) ==
    CASE mnemonic \in {"Add", "Adc", "Sbb", "Sub", "Mov"} ->
           {"r_r", "r_imm", "r_m", "m_r", "m_imm"}
      [] mnemonic \in {"Cmpxchg", "Xadd", "Xchg"} -> {"r_r", "m_r"}
      [] mnemonic \in {"Cmpxchg8b", "Cmpxchg16b"} -> {"m"}
      [] mnemonic \in {"Pop", "Push"} -> {"r", "m"}
      [] mnemonic \in {"Popa", "Popad", "Leave", "Nop"} -> {"none"}
      [] mnemonic = "Movbe" -> {"r_m", "m_r"}
      [] mnemonic = "Lea" -> {"r_m"}
      [] mnemonic = "Bndmov" -> {"bnd"}
      [] mnemonic = "Movd" -> {"xmm"}
      [] mnemonic = "Enter" -> {"imm_imm"}
      [] OTHER -> {"r_r", "r_m"}

\* a decoded instruction of that mnemonic, flow control, operands, branch
\* target and prefixes
RuleInstr(mnemonic, flow, ops, target, prefixes) ==
    [Instr(mnemonic, mnemonic, 1, flow, ops[1], ops[2], ops[3], ops[4],
           ops[5], target, 0) EXCEPT !.prefixes = prefixes]

\* the instructions without a transfer of control tried on the pivot rules:
\* every mnemonic the rules name and some they do not, in every form
PivotInstrs ==
    UNION {UNION {{RuleInstr(mn, "Next", ops, 0, {}) : ops \in Operands(f)} :
                    f \in FormsOf(mn)} :
             mn \in ArithPivotMnemonics
                      \cup {"Mov", "Movbe", "Movd", "Xadd", "Xchg", "Leave",
                            "Enter", "Lea", "Push", "Nop"}}

\* the branch targets tried: the return thunk, the rbx thunk, another place
BranchTargets == {2048, 1120, 512}

\* the forms of JMP and CALL: near relative, far pointer, register, memory
BranchInstrs(mnemonic, direct, indirect) ==
    {RuleInstr(mnemonic, direct, <<"NearBranch64", None, "Register", None, None>>,
               t, {}) : t \in BranchTargets}
      \cup {RuleInstr(mnemonic, direct,
                      <<"FarBranch32", None, "Register", None, None>>, 0, {})}
      \cup {RuleInstr(mnemonic, indirect, ops, 0, {}) :
              ops \in {o \in Operands("r") : o[2] \in {"RAX", "RSP"}}
                        \cup Operands("m")}

\* the instructions tried on the tail and head rules: every flow control
\* the decoder assigns, with and without prefixes
FlowInstrs ==
    BranchInstrs("Jmp", "UnconditionalBranch", "IndirectBranch")
      \cup BranchInstrs("Call", "Call", "IndirectCall")
      \cup {RuleInstr(mn, "Return", NoOperands, 0, {}) :
              mn \in {"Ret", "Retf", "Iret", "Iretd", "Iretq", "Sysret",
                      "Sysretq", "Sysexit", "Sysexitq"}}
      \cup {RuleInstr("Ret", "Return", <<"Immediate16", None, "Register", None, None>>,
                      0, {}),
            RuleInstr("Ret", "Return", NoOperands, 0, {"rep"}),
            RuleInstr("Je", "ConditionalBranch",
                      <<"NearBranch64", None, "Register", None, None>>, 2048, {}),
            RuleInstr("Syscall", "Call", NoOperands, 0, {}),
            RuleInstr("Int3", "Interrupt", NoOperands, 0, {}),
            RuleInstr("Ud2", "Exception", NoOperands, 0, {}),
            RuleInstr("Xbegin", "XbeginXabortXend",
                      <<"NearBranch64", None, "Register", None, None>>, 512, {}),
            RuleInstr("Nop", "Next", NoOperands, 0, {}),
            RuleInstr("Pop", "Next", <<"Register", "RSP", "Register", None, None>>,
                      0, {}),
            RuleInstr("Movsb", "Next", NoOperands, 0, {"rep"}),
            RuleInstr("Add", "Next", <<"Memory", None, "Register", "EAX", "RAX">>,
                      0, {"lock"}),
            InvalidInstr}

\* an image with those of the return thunk and the rbx thunk among its
\* symbols
RuleImage(with_ret, with_rbx) ==
    Image("elf", TRUE, <<>>, <<>>,
          (IF with_ret THEN << Sym("__x86_return_thunk", 2048) >> ELSE <<>>)
            \o (IF with_rbx THEN << Sym("__x86_indirect_thunk_rbx", 1120) >>
                ELSE <<>>),
          <<>>, 0)

\* the rules' inputs: an instruction, the options and the thunk addresses
\* main hands to the rules
InitRulesWith(i, o, img) ==
    /\ image = img /\ bytes = <<>> /\ build = "release" /\ opts = o
    /\ pc = "is_gadget_tail" /\ exit_code = NoExit
    /\ snapshot = <<>> /\ sites = <<>> /\ loop_i = 0 /\ thunk_array = 0
    /\ regions = <<>> /\ ranges = <<>>
    /\ ret_thunk = get_sym_addr(img, "__x86_return_thunk")
    /\ thunks = ThunkTable(img)
    /\ scan_region = 0 /\ scan_res = EmptyMap /\ scan_order = <<>>
    /\ reordered = FALSE
    /\ emitted = <<>> /\ gadget_to_addr = EmptyMap
    /\ gadgets = <<>> /\ lines = <<>> /\ write_i = 0 /\ wbuf = <<>>
    /\ out = <<>> /\ pipe_closed = FALSE /\ write_failed = FALSE
    /\ rule_instr = i /\ rule_res = NoVerdicts

InitRules ==
    \/ \E i \in PivotInstrs :
          InitRulesWith(i, DefaultOpts(1), RuleImage(FALSE, FALSE))
    \/ \E i \in FlowInstrs :
       \E rop \in BOOLEAN, sys \in BOOLEAN, jop \in BOOLEAN, noisy \in BOOLEAN :
       \E with_ret \in BOOLEAN, with_rbx \in BOOLEAN :
          InitRulesWith(i, [DefaultOpts(1) EXCEPT !.rop = rop, !.sys = sys,
                                                  !.jop = jop, !.noisy = noisy],
                        RuleImage(with_ret, with_rbx))

ruleFrame ==
    << inputVars, patchVars, prepVars, scanVars, outVars, rule_instr, exit_code >>

\* a call of is_gadget_tail, as Disassembly::is_tail_at makes it
TailRule ==
    /\ pc = "is_gadget_tail"
    /\ rule_res' = [rule_res EXCEPT !.tail =
                      << is_gadget_tail(rule_instr, opts.rop, opts.sys, opts.jop,
                                        opts.noisy, ret_thunk, thunks) >>]
    /\ pc' = "is_rop_gadget_head"
    /\ UNCHANGED ruleFrame

\* a call of is_rop_gadget_head
HeadRule ==
    /\ pc = "is_rop_gadget_head"
    /\ rule_res' = [rule_res EXCEPT !.head =
                      << is_rop_gadget_head(rule_instr, opts.noisy) >>]
    /\ pc' = "is_stack_pivot_head"
    /\ UNCHANGED ruleFrame

\* a call of is_stack_pivot_head
StackPivotRule ==
    /\ pc = "is_stack_pivot_head"
    /\ rule_res' = [rule_res EXCEPT !.stack = << is_stack_pivot_head(rule_instr) >>]
    /\ pc' = "is_base_pivot_head"
    /\ UNCHANGED ruleFrame

\* a call of is_base_pivot_head
BasePivotRule ==
    /\ pc = "is_base_pivot_head"
    /\ rule_res' = [rule_res EXCEPT !.base = << is_base_pivot_head(rule_instr) >>]
    /\ pc' = "rules_done"
    /\ UNCHANGED ruleFrame

NextRules ==
    \/ TailRule
    \/ HeadRule
    \/ StackPivotRule
    \/ BasePivotRule

SpecRules == InitRules /\ [][NextRules]_vars

\* the scan inputs next to the rules' own: every .text content over
\* CodeBytes, in one region or two, with and without --noisy
InitTailScan ==
    \E b \in SeqsFromTo(CodeBytes, 1, MaxLen) :
    \E m \in 1..MaxInstrOpt, noisy \in BOOLEAN :
    \E img \in {ElfPlain(Len(b))} \cup (IF Len(b) >= 2 THEN {ElfTwo(Len(b))} ELSE {}) :
       InitWith(img, b, "release", [DefaultOpts(m) EXCEPT !.noisy = noisy])

\* the rules called on their own, and called by main's scan
NextTails ==
    \/ TailRule
    \/ HeadRule
    \/ StackPivotRule
    \/ BasePivotRule
    \/ Start
    \/ ApplyReturnsites
    \/ ReturnsiteEntry
    \/ PatchRetpolines
    \/ RetpolineEntry
    \/ Prepare
    \/ ScanOffset
    \/ Collect
    \/ Filter
    \/ WriteLine
    \/ ClosePipe
    \/ Flush

SpecTails == (InitRules \/ InitTailScan \/ InitKernel) /\ [][NextTails]_vars

(* ============================== claims ================================ *)
Terminated == pc = "exit"

\* main got past the loader and the patchers into the scan
ReachedScan == regions # <<>>

\* every region has been scanned and collected; emitted and the map are final
ScanDone == pc \in {"filter", "write", "flush"}

Min(S) == CHOOSE a \in S : \A b \in S : a <= b

(* C1: a file that is not an ELF image (a PE image, or bytes no parser     *)
(* recognises), run with --raw true or without --raw, reaches the scan     *)
(* over the regions sections(raw) yields and ends with exit code 0,        *)
(* whatever --patch-rets and --patch-retpolines are.  (A run with --magic, *)
(* with --max-instr 0 or with a closed output pipe is left aside.)         *)
C1_NonElfRunScansAndExitsZero ==
    ( /\ image.kind \in {"pe", "unknown"}
      /\ opts.raw \in {"true", "unset"}
      /\ ~opts.magic /\ opts.max_instr > 0
      /\ ~pipe_closed
      /\ Terminated )
    => ( /\ exit_code = ExitOk
         /\ regions = sections(image, bytes, opts.raw).regions
         /\ ReachedScan )

\* the case of C1 happens: a non-ELF run with --raw true has ended
C1_Witness ==
    /\ image.kind \in {"pe", "unknown"}
    /\ opts.raw = "true" /\ ~opts.magic /\ opts.max_instr > 0
    /\ ~opts.patch_rets /\ ~opts.patch_retpolines
    /\ Terminated

(* C2: with uniq on, once the scan is over, the address the dedup map      *)
(* keeps for a gadget text is the minimum of the addresses of the pairs    *)
(* the scanner emitted with that text.                                     *)
EmittedWithText(text) ==
    {emitted[k].address : k \in
       {x \in 1..Len(emitted) :
          FormatGadget(emitted[x].gadget.instructions) = text}}

\* C2: the map keeps the minimum address of every deduplicated text
C2_LowestAddressSurvives ==
    (opts.uniq /\ ScanDone)
    => \A k \in DOMAIN gadget_to_addr :
          gadget_to_addr[k].address = Min(EmittedWithText(k[1]))

\* the case of C2 happens: two emitted pairs share a text, and were deduped
C2_Witness ==
    /\ opts.uniq /\ pc = "filter"
    /\ \E k \in DOMAIN gadget_to_addr : Cardinality(EmittedWithText(k[1])) >= 2

(* C9: when a write of a gadget line fails because the pipe is closed,     *)
(* the program stops writing gadgets and ends with exit code 0.            *)
C9_BrokenPipeExitsZero ==
    (write_failed /\ Terminated) => exit_code = ExitOk

\* the case of C9 happens: a write failed, no later line was written, and
\* the process has ended
C9_Witness ==
    /\ write_failed /\ Terminated
    /\ write_i <= Len(lines)
    /\ Len(out) + Len(wbuf) = write_i - 1

(* C3: scanner exhaustiveness.  Once the scan is over, for every code      *)
(* region and every offset t of it whose decode is a tail, the tail alone  *)
(* was emitted at address base + t, and for every start offset s of the    *)
(* window [max(0, t - 15 * max_instr), t) from which a linear decode of at *)
(* most max_instr instructions, all head-qualified before the tail, lands  *)
(* exactly on t, the gadget starting at s was emitted at address base + s, *)
(* where base = program_base + section_vaddr.                              *)
IsTailOffset(region, t) ==
    is_gadget_tail(DecodeIn(region, t), opts.rop, opts.sys, opts.jop,
                   opts.noisy, ret_thunk, thunks)

\* p is a chain of instruction starts: each one is a head and ends where
\* the next one starts
IsHeadChain(region, p) ==
    \A k \in 1..(Len(p) - 1) :
        /\ is_rop_gadget_head(DecodeIn(region, p[k]), opts.noisy)
        /\ p[k + 1] = p[k] + DecodeIn(region, p[k]).len

ChainsTo(region, t) ==
    {p \in SeqsFromTo(0..t, 1, opts.max_instr) :
        /\ p[Len(p)] = t
        /\ p[1] + MaxInstrBytes * opts.max_instr >= t
        /\ IsHeadChain(region, p)}

WasEmitted(instrs, address) ==
    \E k \in 1..Len(emitted) :
        /\ emitted[k].address = address
        /\ emitted[k].gadget.instructions = instrs

\* C3: every chain of heads that lands on a tail was emitted at its start
C3_ScannerExhaustive ==
    ScanDone =>
      \A r \in 1..Len(regions) :
        \A t \in 0..(Len(regions[r].bytes) - 1) :
          IsTailOffset(regions[r], t) =>
            \A p \in ChainsTo(regions[r], t) :
              WasEmitted([k \in 1..Len(p) |-> DecodeIn(regions[r], p[k])],
                         (RegionBase(regions[r]) + p[1]) % Usize)

\* the case of C3 happens: a tail preceded by two heads, in a region whose
\* base is not 0, was scanned with a budget that allows the whole chain
C3_Witness ==
    /\ ScanDone
    /\ \E r \in 1..Len(regions) :
         /\ RegionBase(regions[r]) > 0
         /\ \E t \in 0..(Len(regions[r].bytes) - 1) :
              /\ IsTailOffset(regions[r], t)
              /\ \E p \in ChainsTo(regions[r], t) : Len(p) = 3

(* C4: filter laws.  Once the filters have run, a pair of the deduplicated *)
(* map is rendered if and only if: no --range interval was parsed or its   *)
(* address lies in one of them (bounds included); its text matches every   *)
(* -R regex and no -N regex; --stack-pivot is off or it is a stack pivot;  *)
(* --base-pivot is off or it is a base pivot; --trim-nops is off or its    *)
(* first instruction is not a NOP.  Every rendered line comes from one     *)
(* such pair, and from an emitted pair at that address; with --nouniq the  *)
(* rendered pairs are exactly the emitted pairs that pass.                 *)
Filtered == pc \in {"write", "flush"}

MapPairs == {gadget_to_addr[k] : k \in DOMAIN gadget_to_addr}

ParsedIntervals == {r \in Range(opts.range) : r.parses}

InSomeInterval(address) ==
    \/ ParsedIntervals = {}
    \/ \E r \in ParsedIntervals : r.from <= address /\ address <= r.to

TextOf(g) == FormatGadget(g.instructions)

PassesLaws(p) ==
    /\ InSomeInterval(p.address)
    /\ \A re \in Range(opts.regex) : RegexIsMatch(re, TextOf(p.gadget))
    /\ \A re \in Range(opts.not_regex) : ~RegexIsMatch(re, TextOf(p.gadget))
    /\ (opts.stack_pivot => GadgetIsStackPivot(p.gadget, ret_thunk))
    /\ (opts.base_pivot => GadgetIsBasePivot(p.gadget))
    /\ (opts.trim_nops => p.gadget.instructions[1].mnemonic # "Nop")

RenderedAs(p) == Line(p.address, Formatted(p.gadget, ret_thunk, thunks))

C5_StrictOrdering ==
    Filtered =>
      \A j \in 1..Len(lines) : \A k \in (j + 1)..Len(lines) :
         IF opts.sort THEN TextCmp(lines[j].text, lines[k].text) < 0
         ELSE lines[j].address < lines[k].address

\* no address belongs to two code regions
RegionsDisjoint ==
    \A r \in 1..Len(regions) : \A q \in (r + 1)..Len(regions) :
       \/ RegionBase(regions[r]) + Len(regions[r].bytes)
             <= RegionBase(regions[q])
       \/ RegionBase(regions[q]) + Len(regions[q].bytes)
             <= RegionBase(regions[r])

(* C5, amended: without --sort the rendered lines are ascending by         *)
(* address, strictly so when no two code regions overlap; with --sort they *)
(* are ascending by text, strictly so when uniq is on, and lines of equal  *)
(* text (--nouniq) are in ascending order of address.                      *)
C5_Ordering ==
    Filtered =>
      \A j \in 1..Len(lines) : \A k \in (j + 1)..Len(lines) :
         IF opts.sort
         THEN /\ TextCmp(lines[j].text, lines[k].text) <= 0
              /\ opts.uniq => TextCmp(lines[j].text, lines[k].text) < 0
              /\ TextCmp(lines[j].text, lines[k].text) = 0
                    => lines[j].address <= lines[k].address
         ELSE /\ lines[j].address <= lines[k].address
              /\ RegionsDisjoint => lines[j].address < lines[k].address

\* the case of C5 happens: a sorted rendering of three lines whose address
\* order is not their text order, two of them with the same text
C5_Witness ==
    /\ Filtered /\ opts.sort /\ Len(lines) = 3
    /\ \E j, k \in 1..Len(lines) :
          j < k /\ lines[j].address > lines[k].address
    /\ \E j, k \in 1..Len(lines) :
          j < k /\ TextCmp(lines[j].text, lines[k].text) = 0

(* C6: determinism under parallel scanning.  Whatever the order in which  *)
(* the workers finish the offsets, the emitted pairs and the map are those *)
(* of a scan that takes the regions and their offsets in ascending order,  *)
(* and the rendered lines are an address-sorted rendering of that map's    *)
(* pairs that pass the filters, of which there is exactly one when no two  *)
(* regions overlap.                                                        *)
RECURSIVE SequentialScan(_, _)
SequentialScan(r, o) ==
    IF r > Len(regions) THEN <<>>
    ELSE IF o >= Len(regions[r].bytes) THEN SequentialScan(r + 1, 0)
    ELSE ScanAt(regions[r], o, opts, ret_thunk, thunks)
           \o SequentialScan(r, o + 1)

SequentialMap == MapExtend(EmptyMap, RangeFilter(ranges, SequentialScan(1, 0)))

SequentialRenderings ==
    { RenderOrder(gs, ret_thunk, thunks, opts.sort) :
        gs \in SortedByAddress(
                 {SequentialMap[k] : k \in
                    {x \in DOMAIN SequentialMap :
                       PassesFilters(opts, ret_thunk, SequentialMap[x].gadget)}}) }

\* C6: the result is that of the sequential scan, whatever the schedule
C6_Deterministic ==
    /\ ScanDone => /\ emitted = SequentialScan(1, 0)
                   /\ gadget_to_addr = SequentialMap
    /\ Filtered => /\ lines \in SequentialRenderings
                   /\ RegionsDisjoint => SequentialRenderings = {lines}

\* the case of C6 happens: the workers finished out of offset order, two
\* pairs of the same text were deduplicated and lines were rendered
C6_Witness ==
    /\ Filtered /\ reordered /\ opts.uniq /\ Len(lines) >= 2
    /\ \E k \in DOMAIN gadget_to_addr : Cardinality(EmittedWithText(k[1])) >= 2

(* C7: apply_returnsites.  The pass takes the entries of .return_sites in  *)
(* order, one per step.  For entry i, with v = sh_addr(.return_sites) +     *)
(* 4 * i + sign_extend(entry_i) and o = v - sh_addr(.text) in machine      *)
(* arithmetic: if o exceeds sh_size(.text) the step writes nothing;        *)
(* otherwise the 5 bytes at file offsets sh_offset(.text) + o .. + 4       *)
(* become c3 cc cc cc cc and every other byte of the image is unchanged.   *)
(* A step aborts the process (writing nothing) exactly when that window    *)
(* runs past the end of the file or, in a build with overflow checks,      *)
(* when v lies below .text.                                                *)
ReturnSites == FindSection(image, ".return_sites")[1]

EntryValue(h, i) ==
    I32FromBytes(Slice(snapshot, h.sh_offset + 4 * i, h.sh_offset + 4 * i + 4))

EntryVaddr(h, i) == (h.sh_addr + 4 * i + EntryValue(h, i)) % Usize

TextOffsetOf(v) == (v - TextHeader.sh_addr) % Usize

\* C7: what one step of the pass does to the image
C7_ReturnsiteStep ==
    pc = "ret_loop" =>
      LET v == EntryVaddr(ReturnSites, loop_i - 1)
          o == TextOffsetOf(v)
          at == TextHeader.sh_offset + o
          aborts == \/ Checks /\ v < TextHeader.sh_addr
                    \/ o <= TextHeader.sh_size /\ at + 5 > Len(bytes)
      IN  /\ Len(sites) * 4 = ReturnSites.sh_size
          /\ IF aborts
             THEN pc' = "exit" /\ exit_code' = ExitPanic /\ bytes' = bytes
             ELSE /\ IF loop_i = Len(sites)
                     THEN pc' = "patch_retpolines"
                     ELSE pc' = "ret_loop" /\ loop_i' = loop_i + 1
                  /\ Len(bytes') = Len(bytes)
                  /\ \A k \in 0..(Len(bytes) - 1) :
                        bytes'[k + 1] =
                           IF o > TextHeader.sh_size THEN bytes[k + 1]
                           ELSE IF k = at THEN 195
                           ELSE IF k \in (at + 1)..(at + 4) THEN 204
                           ELSE bytes[k + 1]

SiteAt == TextHeader.sh_offset + TextOffsetOf(sites[loop_i])

\* the site as the bytes spell it: prefix, opcode, length, target
SitePrefixed == bytes[SiteAt + 1] = 65
SiteOpcode == bytes[SiteAt + (IF SitePrefixed THEN 2 ELSE 1)]
SiteLen == IF SitePrefixed THEN 6 ELSE 5
SiteTarget ==
    (sites[loop_i] + SiteLen
       + I32FromBytes(Slice(bytes, SiteAt + SiteLen - 4, SiteAt + SiteLen)))
      % Usize

SiteInFile ==
    /\ sites[loop_i] >= TextHeader.sh_addr
    /\ TextOffsetOf(sites[loop_i]) <= TextHeader.sh_size
    /\ SiteAt + DecodeWindow <= Len(bytes)

SiteIsRel32 == SiteInFile /\ SiteOpcode \in {232, 233}

SiteReg == (SiteTarget - thunk_array) \div ThunkSize

Rewritten(r) ==
    (IF r >= 8 THEN <<65>> ELSE <<>>)
      \o << 255, (IF SiteOpcode = 232 THEN 16 ELSE 32) + 192 + (r % 8) >>
      \o [k \in 1..(SiteLen - 2 - (IF r >= 8 THEN 1 ELSE 0)) |-> 144]

\* the .text region of the image after the step
TextRegionAfter ==
    Section(TextHeader.sh_offset, TextHeader.sh_addr, 0, Bits64,
            Slice(bytes', TextHeader.sh_offset,
                  TextHeader.sh_offset + TextHeader.sh_size))

\* C8: what one step of the pass does to such a site
C8_RetpolineStep ==
    ( /\ pc = "retp_loop" /\ SiteIsRel32
      /\ SiteTarget >= thunk_array
      /\ SiteReg \in (0..15) \ {4} )
    => /\ pc' # "exit"
       /\ Len(bytes') = Len(bytes)
       /\ \A k \in 0..(Len(bytes) - 1) :
             bytes'[k + 1] =
                IF k \in SiteAt..(SiteAt + SiteLen - 1)
                THEN Rewritten(SiteReg)[k - SiteAt + 1]
                ELSE bytes[k + 1]
       /\ (SiteOpcode = 233 /\ ~SitePrefixed
             /\ SiteTarget = thunk_array + 96)
          => /\ Slice(bytes', SiteAt, SiteAt + 5) = << 255, 227, 144, 144, 144 >>
             /\ LET found == ScanAt(TextRegionAfter,
                                    TextOffsetOf(sites[loop_i]), opts,
                                    get_sym_addr(image, "__x86_return_thunk"),
                                    ThunkTable(image))
                IN  /\ found # <<>>
                    /\ TextOf(found[1].gadget) = << <<"jmp", "rbx", NoNum>> >>
                    /\ found[1].address = sites[loop_i]

SiteInstr ==
    Decode(Slice(bytes, SiteAt, SiteAt + DecodeWindow), 0, Bits64,
           sites[loop_i])

\* C10: a step rewrites only a CALL/JMP rel32 into the array; index 4 aborts
C10_RetpolineGuardStep ==
    pc = "retp_loop" =>
      /\ bytes' # bytes =>
            /\ SiteInstr.code \in {"Call_rel32_64", "Jmp_rel32_64"}
            /\ thunk_array <= SiteInstr.near_branch_target
            /\ SiteInstr.near_branch_target < thunk_array + 16 * ThunkSize
      /\ ( /\ SiteInFile
           /\ SiteInstr.code \in {"Call_rel32_64", "Jmp_rel32_64"}
           /\ SiteInstr.near_branch_target >= thunk_array
           /\ (SiteInstr.near_branch_target - thunk_array) \div ThunkSize = 4 )
         => pc' = "exit" /\ exit_code' = ExitPanic /\ bytes' = bytes

\* C10: every step of the patch_retpolines pass is such a step
C10_RetpolineGuard == [][C10_RetpolineGuardStep]_vars

\* the case of C10 happens: the pass rewrote a site whose jmp goes to the
\* address right after the thunk array
C10_Witness ==
    /\ pc \in {"retp_loop", "sections"} /\ thunk_array > 0
    /\ Slice(snapshot, 0, 5) = <<233>> \o I32ToBytes(1024 + 512 - (256 + 5))
    /\ Slice(bytes, 0, 5) # Slice(snapshot, 0, 5)

(* C11: pipeline order of dedup and filtering.  Deduplication collapses    *)
(* every pair the scanner emitted, and the range filter is applied to the  *)
(* deduplicated collection: with uniq on and a non-empty range set, a      *)
(* gadget text is rendered only if the address that deduplication keeps    *)
(* over all the emitted pairs of that text lies in some range interval.    *)
DedupOfAllEmitted == MapExtend(EmptyMap, emitted)

SurvivorOfAll(g) == DedupOfAllEmitted[GadgetKey(g)].address

\* C11: a rendered text's survivor over all its occurrences is in a range
C11_RangeAfterDedup ==
    (Filtered /\ opts.uniq /\ ParsedIntervals # {})
    => \A k \in 1..Len(gadgets) :
          InSomeInterval(SurvivorOfAll(gadgets[k].gadget))

\* the case of C11 happens: with uniq on and a range set, a text that the
\* scanner emitted both inside and outside the ranges was rendered
C11_Witness ==
    /\ Filtered /\ opts.uniq /\ ParsedIntervals # {}
    /\ \E k \in 1..Len(gadgets) :
          /\ \E a \in EmittedWithText(TextOf(gadgets[k].gadget)) :
                InSomeInterval(a)
          /\ \E a \in EmittedWithText(TextOf(gadgets[k].gadget)) :
                ~InSomeInterval(a)

(* C12: is_stack_pivot_head (register set RSP, ESP, SP) and                *)
(* is_base_pivot_head (register set RBP, EBP, BP) return true exactly when *)
(* the instruction is: one of ADC, ADCX, ADD, SBB, SUB, BNDMOV, CMOVcc,     *)
(* CMPXCHG, CMPXCHG8B, CMPXCHG16B, POP, POPA, POPAD with op0 in the set and *)
(* op1 an immediate or a register; or MOV, MOVBE, MOVD with op0 in the set *)
(* and op1 a register or a memory operand, with or without a base          *)
(* register; or XADD, XCHG with either operand register in the set; or     *)
(* LEAVE (stack pivot only) / ENTER (base pivot only).                     *)
CmovMnemonics ==
    {"Cmovo", "Cmovno", "Cmovb", "Cmovae", "Cmove", "Cmovne", "Cmovbe",
     "Cmova", "Cmovs", "Cmovns", "Cmovp", "Cmovnp", "Cmovl", "Cmovge",
     "Cmovle", "Cmovg"}

IsImmediate(kind) ==
    kind \in {"Immediate8", "Immediate8_2nd", "Immediate16", "Immediate32",
              "Immediate64", "Immediate8to16", "Immediate8to32",
              "Immediate8to64", "Immediate32to64"}

PivotHeadAsStated(i, regset, own) ==
    \/ /\ i.mnemonic \in {"Adc", "Adcx", "Add", "Sbb", "Sub", "Bndmov", "Cmpxchg",
                          "Cmpxchg8b", "Cmpxchg16b", "Pop", "Popa", "Popad"}
                           \cup CmovMnemonics
       /\ i.op0_register \in regset
       /\ (IsImmediate(i.op1_kind) \/ i.op1_kind = "Register")
    \/ /\ i.mnemonic \in {"Mov", "Movbe", "Movd"}
       /\ i.op0_register \in regset
       /\ i.op1_kind \in {"Register", "Memory"}
    \/ /\ i.mnemonic \in {"Xadd", "Xchg"}
       /\ (i.op0_register \in regset \/ i.op1_register \in regset)
    \/ i.mnemonic = own

\* C12: each pivot rule returns true exactly for the instructions stated
C12_PivotHeadRules ==
    /\ rule_res.stack # <<>> =>
          rule_res.stack[1]
             = PivotHeadAsStated(rule_instr, {"RSP", "ESP", "SP"}, "Leave")
    /\ rule_res.base # <<>> =>
          rule_res.base[1]
             = PivotHeadAsStated(rule_instr, {"RBP", "EBP", "BP"}, "Enter")

\* the case of C12 happens: both rules were called on a MOV that loads the
\* stack pointer from a memory operand without a base register
C12_Witness ==
    /\ pc = "rules_done"
    /\ rule_instr.mnemonic = "Mov" /\ rule_instr.op0_register = "RSP"
    /\ rule_instr.op1_kind = "Memory" /\ rule_instr.memory_base = None
    /\ rule_res.stack # <<>> /\ rule_res.base # <<>>

(* C13: is_gadget_tail(instr, rop, sys, jop, noisy, thunks) is true       *)
(* exactly when instr is not INVALID, its flow control is not Next, and    *)
(* (rop and (is_ret or is_target_thunk)) or (sys and is_sys) or (jop and   *)
(* is_jop), where is_ret is RET or a near JMP to the return thunk,         *)
(* is_target_thunk is a near JMP to a known indirect thunk address, is_sys *)
(* is one of IRET, IRETD, IRETQ, SYSRET, SYSRETQ, SYSEXIT, SYSEXITQ, and   *)
(* is_jop is JMP or CALL with op0 a register or a memory operand whose     *)
(* base is not the instruction pointer (any JMP or CALL when noisy).  With *)
(* rop, sys and jop all disabled no instruction is a tail.                 *)
IsNearJmpTo(i, a) ==
    /\ i.mnemonic = "Jmp"
    /\ i.op0_kind \in {"NearBranch16", "NearBranch32", "NearBranch64"}
    /\ i.near_branch_target = a

KnownThunks == {thunks[k][2][1] : k \in {x \in 1..Len(thunks) : thunks[x][2] # <<>>}}

TailAsStated(i) ==
    /\ i.code # "INVALID"
    /\ i.flow_control # "Next"
    /\ \/ /\ opts.rop
          /\ \/ i.mnemonic = "Ret"
             \/ ret_thunk # <<>> /\ IsNearJmpTo(i, ret_thunk[1])
             \/ \E a \in KnownThunks : IsNearJmpTo(i, a)
       \/ /\ opts.sys
          /\ i.mnemonic \in {"Iret", "Iretd", "Iretq", "Sysret", "Sysretq",
                             "Sysexit", "Sysexitq"}
       \/ /\ opts.jop
          /\ i.mnemonic \in {"Jmp", "Call"}
          /\ \/ opts.noisy
             \/ i.op0_kind = "Register"
             \/ i.op0_kind = "Memory" /\ i.memory_base \notin {"RIP", "EIP"}

\* C13: is_gadget_tail returns true exactly for the instructions stated
C13_GadgetTailRule ==
    rule_res.tail # <<>> =>
       /\ rule_res.tail[1] = TailAsStated(rule_instr)
       /\ (~opts.rop /\ ~opts.sys /\ ~opts.jop) => rule_res.tail[1] = FALSE

\* the case of C13 happens: with rop on, jop off and no return thunk, a
\* near JMP to the rbx thunk was found to be a tail
C13_Witness ==
    /\ rule_res.tail = << TRUE >>
    /\ opts.rop /\ ~opts.jop /\ ret_thunk = <<>>
    /\ IsNearJmpTo(rule_instr, 1120)

(* C14: for every content of .return_sites, every byte apply_returnsites  *)
(* modifies lies inside the file range of .text, [sh_offset(.text),        *)
(* sh_offset(.text) + sh_size(.text)); an entry whose offset into .text is *)
(* within the last 4 bytes of .text, equal to sh_size(.text), or below     *)
(* sh_addr(.text) causes no write outside .text and no access out of the   *)
(* bounds of the file.                                                     *)
InTextFileRange(k) ==
    /\ TextHeader.sh_offset <= k
    /\ k < TextHeader.sh_offset + TextHeader.sh_size

\* the step ends the process on a slice that is out of the file
AbortsOutOfBounds ==
    /\ pc' = "exit" /\ exit_code' = ExitPanic
    /\ ~(Checks /\ sites[loop_i] < TextHeader.sh_addr)

\* C14: what one step of the pass may write, and that it stays in bounds
C14_ReturnsiteWriteStep ==
    pc = "ret_loop" =>
      /\ Len(bytes') = Len(bytes)
      /\ \A k \in 0..(Len(bytes) - 1) :
            bytes'[k + 1] # bytes[k + 1] => InTextFileRange(k)
      /\ ~AbortsOutOfBounds

\* C14: every step of apply_returnsites writes inside .text only
C14_ReturnsiteWritesInText == [][C14_ReturnsiteWriteStep]_vars

\* the case of C14 happens: the pass is over, one of its entries named the
\* end of .text, and a byte of the file after .text is no longer the same
C14_Witness ==
    /\ pc = "patch_retpolines" /\ opts.patch_rets /\ sites # <<>>
    /\ \E k \in 1..Len(sites) : TextOffsetOf(sites[k]) = TextHeader.sh_size
    /\ \E k \in 0..(Len(bytes) - 1) :
          bytes[k + 1] # snapshot[k + 1] /\ ~InTextFileRange(k)

(* C15: whenever at least one --range option is passed, the address of   *)
(* every rendered gadget lies inside an interval given by one of the       *)
(* passed --range options; a value that does not parse as hex 'from-to'    *)
(* never causes gadgets outside all passed ranges to be rendered.          *)
InPassedRange(address) ==
    \E k \in 1..Len(opts.range) :
       /\ opts.range[k].parses
       /\ opts.range[k].from <= address /\ address <= opts.range[k].to

\* C15: with a --range passed, every rendered address is in a passed range
C15_RangeAlwaysRestricts ==
    (Filtered /\ opts.range # <<>>)
    => \A k \in 1..Len(lines) : InPassedRange(lines[k].address)

\* the case of C15 happens: gadgets were rendered in a run whose only
\* --range value does not parse
C15_Witness ==
    /\ Filtered /\ opts.range # <<>> /\ lines # <<>>
    /\ \A k \in 1..Len(opts.range) : ~opts.range[k].parses

(* C16: for every instruction the decoder can produce and every option   *)
(* setting (rop, sys, jop, noisy, return thunk, indirect thunk table),     *)
(* is_gadget_tail and is_rop_gadget_head are never both true; hence an     *)
(* emitted gadget contains exactly one tail instruction, its last, and at  *)
(* most one gadget starts at any given byte offset of a region.            *)
IsTailHere(i) ==
    is_gadget_tail(i, opts.rop, opts.sys, opts.jop, opts.noisy, ret_thunk,
                   thunks)

\* C16: no instruction is tail and head; one tail and one start per gadget
C16_TailHeadExclusive ==
    /\ (rule_res.tail # <<>> /\ rule_res.head # <<>>)
       => ~(rule_res.tail[1] /\ rule_res.head[1])
    /\ \A k \in 1..Len(emitted) :
          LET ins == emitted[k].gadget.instructions
          IN  /\ \A j \in 1..Len(ins) : IsTailHere(ins[j]) <=> j = Len(ins)
              /\ \A j \in 1..(Len(ins) - 1) :
                    ~(IsTailHere(ins[j]) /\ is_rop_gadget_head(ins[j], opts.noisy))
    /\ RegionsDisjoint =>
          \A j \in 1..Len(emitted) : \A k \in 1..Len(emitted) :
             emitted[j].address = emitted[k].address => j = k

\* the case of C16 happens: both rules were called, with --noisy and jop
\* on, on a near relative CALL, which is a tail of flow control Call
C16_Witness ==
    /\ rule_res.tail = << TRUE >> /\ rule_res.head # <<>>
    /\ opts.noisy /\ opts.jop
    /\ rule_instr.mnemonic = "Call" /\ rule_instr.flow_control = "Call"

=============================================================================
